---- MODULE Spec2Model ----
(***************************************************************************)
(* Model of the laboratory pre-processing pipeline of                      *)
(* src/lab_preprocessing.py (preprocess_labs and the helpers it calls in   *)
(* src/utils.py).                                                          *)
(*                                                                         *)
(* A table (pandas DataFrame) is a sequence of rows; a row is a record of  *)
(* its columns.  Text is a TLA+ string and is processed character by       *)
(* character.  A cell of the 'value' column is a record: text ("str"), a   *)
(* finite float ("num", fixed point with Scale units per 1.0), an infinite *)
(* float ("inf"), or a missing value ("nan").                              *)
(***************************************************************************)
EXTENDS Integers, Sequences, FiniteSets, TLC

VARIABLES
    lab_df,                 \* the caller's input table
    selected_variables,     \* argument: set of labels to retain
    material_to_include,    \* argument: set of material categories
    log_dir,                \* argument: '' or a directory
    pc,                     \* position in preprocess_labs
    err,                    \* the exception that ended the call ("" = none)
    reorganised_lab_df,     \* local: table before the label restriction
    df,                     \* local: equalized_reorganised_lab_df
    n_observations_out_ouf_range,
    median_observations,    \* median_observations_per_case_admission_id_df
    files,                  \* audit files written under log_dir
    earlier_calls           \* how the caller's earlier calls ended

vars == <<lab_df, selected_variables, material_to_include, log_dir, pc, err,
          reorganised_lab_df, df, n_observations_out_ouf_range,
          median_observations, files, earlier_calls>>

-----------------------------------------------------------------------------
(* Bounds of the model *)

MaxRows == 2
MaxMedianRows == 3

-----------------------------------------------------------------------------
(* Text helpers *)

Range(s) == {s[i] : i \in DOMAIN s}

Char(s, i) == SubSeq(s, i, i)

Tail1(s) == SubSeq(s, 2, Len(s))

Contains(s, sub) ==
    \E i \in 1..(Len(s) - Len(sub) + 1) : SubSeq(s, i, i + Len(sub) - 1) = sub

RECURSIVE StrRemove(_, _)
StrRemove(s, c) ==
    IF s = "" THEN ""
    ELSE (IF Char(s, 1) = c THEN "" ELSE Char(s, 1)) \o StrRemove(Tail1(s), c)

RECURSIVE ZFill(_, _)
ZFill(s, w) == IF Len(s) >= w THEN s ELSE ZFill("0" \o s, w)

LowerChar(c) ==
    CASE c = "A" -> "a" [] c = "B" -> "b" [] c = "C" -> "c" [] c = "D" -> "d"
      [] c = "E" -> "e" [] c = "F" -> "f" [] c = "G" -> "g" [] c = "H" -> "h"
      [] c = "I" -> "i" [] c = "J" -> "j" [] c = "K" -> "k" [] c = "L" -> "l"
      [] c = "M" -> "m" [] c = "N" -> "n" [] c = "O" -> "o" [] c = "P" -> "p"
      [] c = "Q" -> "q" [] c = "R" -> "r" [] c = "S" -> "s" [] c = "T" -> "t"
      [] c = "U" -> "u" [] c = "V" -> "v" [] c = "W" -> "w" [] c = "X" -> "x"
      [] c = "Y" -> "y" [] c = "Z" -> "z" [] OTHER -> c

RECURSIVE Lower(_)
Lower(s) == IF s = "" THEN "" ELSE LowerChar(Char(s, 1)) \o Lower(Tail1(s))

-----------------------------------------------------------------------------
(* Cells of the value column *)

Scale == 10^4

Str(s) == [k |-> "str", s |-> s, n |-> 0]
Num(n) == [k |-> "num", s |-> "", n |-> n]
Inf(sign) == [k |-> "inf", s |-> "", n |-> sign]
NaN == [k |-> "nan", s |-> "", n |-> 0]

IsNull(v) == v.k = "nan"

Digits == {"0", "1", "2", "3", "4", "5", "6", "7", "8", "9"}

DigitValue(c) ==
    CASE c = "0" -> 0 [] c = "1" -> 1 [] c = "2" -> 2 [] c = "3" -> 3
      [] c = "4" -> 4 [] c = "5" -> 5 [] c = "6" -> 6 [] c = "7" -> 7
      [] c = "8" -> 8 [] c = "9" -> 9

AllDigits(s) == \A i \in 1..Len(s) : Char(s, i) \in Digits

RECURSIVE DigitsValue(_)
DigitsValue(s) ==
    IF s = "" THEN 0
    ELSE DigitsValue(SubSeq(s, 1, Len(s) - 1)) * 10 + DigitValue(Char(s, Len(s)))

\* position of the first "." of s, or Len(s) + 1
RECURSIVE DotPos(_, _)
DotPos(s, i) ==
    IF i > Len(s) THEN i ELSE IF Char(s, i) = "." THEN i ELSE DotPos(s, i + 1)

\* the fraction digits as Scale-ths (digits beyond the fourth are cut)
FracValue(s) == DigitsValue(SubSeq(s \o "0000", 1, 4))

\* an unsigned decimal: digits, optionally one "." and digits
UnsignedToNumeric(s) ==
    LET d == DotPos(s, 1)
        ip == SubSeq(s, 1, d - 1)
        fp == SubSeq(s, d + 1, Len(s))
    IN  IF Lower(s) \in {"inf", "infinity"} THEN Inf(1)
        ELSE IF AllDigits(ip) /\ AllDigits(fp) /\ Len(ip) + Len(fp) > 0
             THEN Num(DigitsValue(ip) * Scale + FracValue(fp))
             ELSE NaN

Negate(v) ==
    IF v.k = "num" THEN Num(-v.n) ELSE IF v.k = "inf" THEN Inf(-v.n) ELSE v

\* pd.to_numeric(..., errors='coerce') of one cell
ToNumeric(v) ==
    IF v.k # "str" THEN v
    ELSE IF v.s = "" THEN NaN
    ELSE IF Char(v.s, 1) = "-" THEN Negate(UnsignedToNumeric(Tail1(v.s)))
    ELSE IF Char(v.s, 1) = "+" THEN UnsignedToNumeric(Tail1(v.s))
    ELSE UnsignedToNumeric(v.s)

\* float comparisons (a comparison with NaN is false)
Less(v, n) == (v.k = "num" /\ v.n < n) \/ (v.k = "inf" /\ v.n < 0)

\* the comparison with the ends excluded
BetweenExclusive(v, lo, hi) == v.k = "num" /\ lo < v.n /\ v.n < hi

\* Series.between(lo, hi), both ends inclusive
Between(v, lo, hi) == v.k = "num" /\ lo <= v.n /\ v.n <= hi

-----------------------------------------------------------------------------
(* Module constants of lab_preprocessing.py *)

blood_material_equivalents ==
    {"sga", "sgv", "sgvm", "sgc", "sgv ponction", "sgv cathéter", "sga cathéter",
     "cathéter artériel", "cathéter veineux", "plasma", "Sang", "sg cordon",
     "sgv catheter", "sga catheter", "catheter arteriel", "catheter veineux"}

unit_of_measure_equivalents == << <<"UI/ml", "U/ml">> >>

non_numerical_values_to_remove ==
    {"ERROR", "nan", "SANS RES.", "Hémolysé", "Hemolyse", "sans resultat",
     "voir POCT", "NON REALISE", "NON INTERPRÉT.", "NON INTERPRET.", "COA", "TAM",
     "****.**", "-100000.0", "----"}

blood_gas_labels == <<"pO2", "pCO2", "pH">>

(* Reference tables read by preprocess_labs.  The files are data shipped   *)
(* beside the module; the model uses small tables of the shape the code    *)
(* reads: one column per group with the canonical label first, one column  *)
(* of allowed units per label, and rows (variable_label, Min, Max).        *)

equivalent_labels_df == << <<"glucose", "glycémie">>, <<"hémoglobine", "Hb">> >>

dosage_units_df == [glucose |-> {"mmol/l"}]

possible_value_ranges ==
    << [variable_label |-> "glucose", Min |-> 1 * Scale, Max |-> 100 * Scale],
       [variable_label |-> "hemoglobine", Min |-> 50 * Scale, Max |-> 200 * Scale] >>

-----------------------------------------------------------------------------
(* src/utils.py *)

\* the decomposition kept whole: what has no ASCII part is not lost
RemoveAccentCharKeepsRest(c) ==
    CASE c \in {"é", "è", "ê", "ë"} -> "e"
      [] c \in {"à", "â"} -> "a"
      [] c = "ç" -> "c"
      [] c \in {"î", "ï"} -> "i"
      [] c = "ô" -> "o"
      [] c \in {"ù", "û"} -> "u"
      [] c = "É" -> "E"
      [] c = "²" -> "2"
      [] OTHER -> c

\* NFKD decomposition of one character followed by encode('ascii', 'ignore'):
\* a base letter keeps its ASCII part, a character with no ASCII part is lost
RemoveAccentChar(c) ==
    CASE c \in {"é", "è", "ê", "ë"} -> "e"
      [] c \in {"à", "â"} -> "a"
      [] c = "ç" -> "c"
      [] c \in {"î", "ï"} -> "i"
      [] c = "ô" -> "o"
      [] c \in {"ù", "û"} -> "u"
      [] c = "É" -> "E"
      [] c = "²" -> "2"
      [] c \in {"µ", "æ", "°"} -> ""
      [] OTHER -> c

RECURSIVE RemoveAccents(_)
RemoveAccents(s) ==
    IF s = "" THEN "" ELSE RemoveAccentChar(Char(s, 1)) \o RemoveAccents(Tail1(s))

\* a cell of an object column under the .str accessor: text is normalized, a
\* cell that is not text comes back missing
RemoveAccentsCell(v) == IF v.k = "str" THEN Str(RemoveAccents(v.s)) ELSE NaN

\* select_dtypes: the value column is an object column when it holds text
ObjectColumn(t) == \E i \in DOMAIN t : t[i].value.k = "str"

remove_french_accents_and_cedillas_from_dataframe(t) ==
    [i \in DOMAIN t |->
        [t[i] EXCEPT !.case_admission_id = RemoveAccents(@),
                     !.dosage_label = RemoveAccents(@),
                     !.material_label = RemoveAccents(@),
                     !.unit_of_measure = RemoveAccents(@),
                     !.value = IF ObjectColumn(t) THEN RemoveAccentsCell(@) ELSE @]]

create_ehr_case_identification_column(r) ==
    r.patient_id \o "_" \o ZFill(r.eds_end_4digit, 4)

-----------------------------------------------------------------------------
(* preprocess_labs, step by step *)

\* lines 46-48 done on the caller's own table: the case identifier added, the
\* identification columns dropped
CallersTableWithoutCopy(t) ==
    [i \in DOMAIN t |->
        [case_admission_id |-> create_ehr_case_identification_column(t[i]),
         dosage_label |-> t[i].dosage_label,
         material_label |-> t[i].material_label,
         unit_of_measure |-> t[i].unit_of_measure,
         value |-> t[i].value]]

\* line 45: the name lab_df is bound to a copy, so what lines 46-48 and the
\* later steps do in place is done to the copy and the caller's table stays
CallersTable(t) == t

\* lines 45-48 and 55-56: copy, case identifier, drop the identification
\* columns; idx is the row's index label
CopyAndIdentify(t) ==
    [i \in DOMAIN t |->
        [idx |-> i,
         case_admission_id |-> create_ehr_case_identification_column(t[i]),
         dosage_label |-> t[i].dosage_label,
         material_label |-> t[i].material_label,
         unit_of_measure |-> t[i].unit_of_measure,
         value |-> t[i].value]]

TailSet(list) == {list[j] : j \in 2..Len(list)}

\* lines 81-85, one column of the equivalence table
AlignOneGroup(t, list) ==
    [i \in DOMAIN t |->
        IF t[i].dosage_label \in TailSet(list)
        THEN [t[i] EXCEPT !.dosage_label = list[1]] ELSE t[i]]

RECURSIVE AlignFrom(_, _)
AlignFrom(t, g) ==
    IF g > Len(equivalent_labels_df) THEN t
    ELSE AlignFrom(AlignOneGroup(t, equivalent_labels_df[g]), g + 1)

AlignEquivalentLabels(t) == AlignFrom(t, 1)

\* the restriction left out
RestrictToSelectedKeepsAll(t, sel) == t

\* lines 91-93
RestrictToSelected(t, sel) == SelectSeq(t, LAMBDA r : r.dosage_label \in sel)

\* lines 98-99: the mask is computed on reorganised_lab_df and aligned on the index
MergeBloodMaterials(t, reorg) ==
    [i \in DOMAIN t |->
        IF reorg[t[i].idx].material_label \in blood_material_equivalents
        THEN [t[i] EXCEPT !.material_label = "any_blood"] ELSE t[i]]

\* the inclusion list left unapplied
RestrictMaterialsKeepsAll(t, mats) == t

\* lines 102-103
RestrictMaterials(t, mats) == SelectSeq(t, LAMBDA r : r.material_label \in mats)

\* the blood-gas rows left in
DropNonArterialKeepsAll(t, g) == t

\* lines 108-112
DropNonArterial(t, g) ==
    SelectSeq(t, LAMBDA r : ~(Contains(r.dosage_label, g) /\ r.material_label # "sga"))

\* lines 115-117
MaterialsOf(t, g) ==
    {t[i].material_label : i \in {j \in DOMAIN t : Contains(t[j].dosage_label, g)}}

\* line 118
ArterialAndOther(t, g) == "sga" \in MaterialsOf(t, g) /\ Cardinality(MaterialsOf(t, g)) > 1

\* lines 106-119: the loop over pO2, pCO2, pH; err is set where the loop raises
RECURSIVE BloodGasFrom(_, _)
BloodGasFrom(t, g) ==
    IF g > Len(blood_gas_labels) THEN [df |-> t, err |-> ""]
    ELSE LET d == DropNonArterial(t, blood_gas_labels[g])
         IN  IF ArterialAndOther(d, blood_gas_labels[g])
             THEN [df |-> d, err |-> "materials"]
             ELSE BloodGasFrom(d, g + 1)

\* lines 123-126
MergeOneUnitGroup(t, list) ==
    [i \in DOMAIN t |->
        IF t[i].unit_of_measure \in TailSet(list)
        THEN [t[i] EXCEPT !.unit_of_measure = list[1]] ELSE t[i]]

RECURSIVE MergeUnitsFrom(_, _)
MergeUnitsFrom(t, g) ==
    IF g > Len(unit_of_measure_equivalents) THEN t
    ELSE MergeUnitsFrom(MergeOneUnitGroup(t, unit_of_measure_equivalents[g]), g + 1)

MergeUnits(t) == MergeUnitsFrom(t, 1)

\* the allow-list filter left out
RestrictUnitsKeepsAll(t) == t

\* lines 130-135
RestrictUnits(t) ==
    SelectSeq(t, LAMBDA r :
        ~(r.dosage_label \in DOMAIN dosage_units_df
          /\ r.unit_of_measure \notin dosage_units_df[r.dosage_label]))

LabelsOf(t) == {t[i].dosage_label : i \in DOMAIN t}

\* lines 139-141
UnitsFor(t, label) ==
    {t[i].unit_of_measure : i \in {j \in DOMAIN t : t[j].dosage_label = label}}

\* the check with the comparison off by one
DifferentUnitsOffByOne(t) ==
    \E label \in LabelsOf(t) : Cardinality(UnitsFor(t, label)) > 2

\* line 143, for any label of the table
DifferentUnits(t) == \E label \in LabelsOf(t) : Cardinality(UnitsFor(t, label)) > 1

-----------------------------------------------------------------------------
(* correct_non_numerical_values *)

\* the float m / 10^e, e.g. D(832, 1) is 83.2
D(m, e) == (m * Scale) \div 10^e

\* 0.05 * x
FivePercent(x) == (x \div 100) * 5

\* the estimate pushed the wrong way
AboveTowardsZero(x) == x - FivePercent(x)

Above(x) == x + FivePercent(x)
Below(x) == x - FivePercent(x)

DOAC == {"Activité anti-Xa (DOAC)", "Activite anti-Xa (DOAC)"}
Fibrinogene == {"fibrinogène", "fibrinogene"}
HBPM == {"activité anti-Xa (HBPM), thérapeutique, 2x /jour",
         "activite anti-Xa (HBPM), therapeutique, 2x /jour"}
HNF == {"activité anti-Xa (HNF)", "activite anti-Xa (HNF)"}
CRP == {"protéine C-réactive", "proteine C-reactive"}

Rule(labels, literal, result) == [labels |-> labels, literal |-> literal, result |-> result]

\* lines 239-305, in the order of the code: the labels, the literal compared with
\* the value, and the number assigned
censored_value_rules ==
    << Rule({"glucose"}, ">83.2", Above(D(832, 1))),
       Rule({"proBNP"}, ">70000", Above(D(70000, 0))),
       Rule(DOAC, ">474", Above(D(474, 0))),
       Rule(DOAC, ">445", Above(D(445, 0))),
       Rule({"PTT"}, ">160.0", Above(D(1600, 1))),
       Rule({"INR"}, ">11.00", Above(D(1100, 2))),
       Rule(Fibrinogene, ">11.00", Above(D(1100, 2))),
       Rule(Fibrinogene, ">11.0", Above(D(110, 1))),
       Rule(HBPM, ">1.60", Above(D(160, 2))),
       Rule(HNF, ">1.31", Above(D(131, 2))),
       Rule(HNF, ">1.20", Above(D(120, 2))),
       Rule({"sodium"}, ">180", Above(D(180, 0))),
       Rule(CRP, ">200.00", Above(D(20000, 2))),
       Rule({"ALAT"}, "<5", Below(D(5, 0))),
       Rule({"bilirubine totale"}, "<3", Below(D(3, 0))),
       Rule(DOAC, "<10", Below(D(10, 0))),
       Rule({"INR"}, "<1.00", Below(D(100, 2))),
       Rule(Fibrinogene, "<0.7", Below(D(7, 1))),
       Rule(Fibrinogene, "<0.5", Below(D(5, 1))),
       Rule(Fibrinogene, "<0.4", Below(D(4, 1))),
       Rule(CRP, "<0.30", Below(D(30, 2))),
       Rule({"cholestérol HDL", "cholesterol HDL"}, "<0.08", Below(D(8, 2))),
       Rule({"créatinine", "creatinine"}, "<18", Below(D(18, 0))) >>

\* line 235: Series.str.replace("'", "")
StripApostrophes(v) == IF v.k = "str" THEN Str(StrRemove(v.s, "'")) ELSE v

\* one assignment of lines 239-305 on one row
ApplyRule(r, rule) ==
    IF r.dosage_label \in rule.labels /\ r.value = Str(rule.literal)
    THEN [r EXCEPT !.value = Num(rule.result)] ELSE r

RECURSIVE ApplyRulesFrom(_, _)
ApplyRulesFrom(r, j) ==
    IF j > Len(censored_value_rules) THEN r
    ELSE ApplyRulesFrom(ApplyRule(r, censored_value_rules[j]), j + 1)

CorrectRow(r) == ApplyRulesFrom([r EXCEPT !.value = StripApostrophes(@)], 1)

correct_non_numerical_values(t) == [i \in DOMAIN t |-> CorrectRow(t[i])]

-----------------------------------------------------------------------------
(* preprocess_labs, the value steps *)

DropNa(t) == SelectSeq(t, LAMBDA r : ~IsNull(r.value))

\* the tokens of the exclusion list left in the table
RemoveNonNumericalKeepsTokens(t) == DropNa(t)

\* lines 152-154
RemoveNonNumerical(t) ==
    DropNa(SelectSeq(t, LAMBDA r :
        ~(r.value.k = "str" /\ r.value.s \in non_numerical_values_to_remove)))

\* the check left out: unreadable text is coerced, not reported
RemainingNonNumericalIgnored(t) == {}

\* lines 155-157
RemainingNonNumerical(t) ==
    {t[i].value : i \in {j \in DOMAIN t : IsNull(ToNumeric(t[j].value))}}

\* line 161
ValuesToNumeric(t) == [i \in DOMAIN t |-> [t[i] EXCEPT !.value = ToNumeric(@)]]

\* the negative values nulled and left in the table for the range step
CorrectNegativeWithoutDrop(t) ==
    [i \in DOMAIN t |->
        IF /\ t[i].dosage_label \in {"hémoglobine", "hemoglobine", "glucose"}
           /\ Less(t[i].value, 0)
        THEN [t[i] EXCEPT !.value = NaN] ELSE t[i]]

\* lines 165-170
CorrectNegative(t) ==
    DropNa([i \in DOMAIN t |->
        IF /\ t[i].dosage_label \in {"hémoglobine", "hemoglobine", "glucose"}
           /\ Less(t[i].value, 0)
        THEN [t[i] EXCEPT !.value = NaN] ELSE t[i]])

\* lines 180-181 and the .values[0] of lines 184-185: the first row of a variable
RangeRow(variable) ==
    possible_value_ranges[
        CHOOSE j \in DOMAIN possible_value_ranges :
            /\ possible_value_ranges[j].variable_label = variable
            /\ \A h \in 1..(j - 1) : possible_value_ranges[h].variable_label # variable]

RangeVariables == {possible_value_ranges[j].variable_label : j \in DOMAIN possible_value_ranges}

\* lines 179-185
NullOutOfRange(t) ==
    [i \in DOMAIN t |->
        IF /\ t[i].dosage_label \in RangeVariables
           /\ ~Between(t[i].value, RangeRow(t[i].dosage_label).Min,
                                   RangeRow(t[i].dosage_label).Max)
        THEN [t[i] EXCEPT !.value = NaN] ELSE t[i]]

\* line 187
CountNa(t) == Cardinality({i \in DOMAIN t : IsNull(t[i].value)})

-----------------------------------------------------------------------------
(* lines 194-197: observations per case, then the median over the cases *)

CasesOf(t, label) ==
    {t[i].case_admission_id : i \in {j \in DOMAIN t : t[j].dosage_label = label}}

\* groupby(['case_admission_id', 'dosage_label'])['value'].count()
CountFor(t, case, label) ==
    Cardinality({i \in DOMAIN t : /\ t[i].case_admission_id = case
                                  /\ t[i].dosage_label = label
                                  /\ ~IsNull(t[i].value)})

\* the k-th smallest of the counts cnt[c], c in the domain of cnt
Kth(cnt, k) ==
    CHOOSE v \in Range(cnt) :
        /\ Cardinality({c \in DOMAIN cnt : cnt[c] <= v}) >= k
        /\ Cardinality({c \in DOMAIN cnt : cnt[c] < v}) < k

\* the upper middle count taken for every number of cases
MedianUpperMiddle(cnt) == Kth(cnt, Cardinality(DOMAIN cnt) \div 2 + 1) * Scale

\* the median as a float: the middle count, or the mean of the two middle counts
Median(cnt) ==
    LET n == Cardinality(DOMAIN cnt)
    IN  IF n % 2 = 1 THEN Kth(cnt, (n + 1) \div 2) * Scale
        ELSE ((Kth(cnt, n \div 2) + Kth(cnt, n \div 2 + 1)) * Scale) \div 2

MedianObservations(t) ==
    [label \in LabelsOf(t) |->
        Median([c \in CasesOf(t, label) |-> CountFor(t, c, label)])]

-----------------------------------------------------------------------------
(* Inputs *)

InputRow(p, e, label, material, unit, value) ==
    [patient_id |-> p, eds_end_4digit |-> e, dosage_label |-> label,
     material_label |-> material, unit_of_measure |-> unit, value |-> value]

\* value texts of a glucose measurement (a variable with a plausible range):
\* plain, at and beyond the range ends, negative, censored, an excluded token,
\* with an apostrophe, missing
GlucoseValues ==
    {Str("10"), Str("1"), Str("100"), Str("0.5"), Str("-5"), Str(">83.2"),
     Str("-100000.0"), Str("1'000"), NaN}

\* value texts of an ALAT measurement (a variable without a plausible range)
ALATValues ==
    {Str("7"), Str("<5"), Str(">83.2"), Str("inf"), Str("-100000"), Str("ERROR")}

InputRows ==
    {InputRow("1", "1234", "glucose", "sgv", "mmol/l", v) : v \in GlucoseValues}
    \cup {InputRow("1", "1234", "ALAT", "sgv", "U/l", v) : v \in ALATValues}
    \cup {InputRow("1", "1234", "ALAT", "sgv", u, Str("7")) : u \in {"UI/ml", "U/ml"}}
    \cup {InputRow("1", "1234", "glucose", "sgv", "mg/dl", Str("10")),
          InputRow("1", "1234", "glucose", "urine", "mmol/l", Str("10"))}
    \cup {InputRow("1", "1234", "pH", m, "", Str("7.4")) : m \in {"sga", "sgv"}}
    \cup {InputRow("1", "1234", "Hb", "sgv cathéter", "g/l", v) :
            v \in {Str("120"), Str("-5")}}
    \cup {InputRow("2", "99", l, "sgv", "mmol/l", Str("10")) : l \in {"glucose", "sodium"}}

Tables(rows, n) == UNION {[1..m -> rows] : m \in 0..n}

Config(sel, mats, dir) ==
    [selected_variables |-> sel, material_to_include |-> mats, log_dir |-> dir]

Configs ==
    {Config({"glucose", "hemoglobine", "pH", "ALAT"}, {"any_blood", "urine"}, "logs"),
     Config({"glucose", "hémoglobine"}, {"any_blood"}, "")}

InitLocals ==
    /\ pc = "start"
    /\ err = ""
    /\ reorganised_lab_df = <<>>
    /\ df = <<>>
    /\ n_observations_out_ouf_range = 0
    /\ median_observations = <<>>
    /\ files = {}
    /\ earlier_calls = <<>>

Init ==
    /\ lab_df \in Tables(InputRows, MaxRows)
    /\ \E c \in Configs :
        /\ selected_variables = c.selected_variables
        /\ material_to_include = c.material_to_include
        /\ log_dir = c.log_dir
    /\ InitLocals

-----------------------------------------------------------------------------
(* preprocess_labs *)

args == <<lab_df, selected_variables, material_to_include, log_dir>>
audit == <<n_observations_out_ouf_range, median_observations, files>>

\* lines 45-76, an input already in the target structure
Start ==
    /\ pc = "start"
    /\ lab_df' = CallersTable(lab_df)
    /\ df' = CopyAndIdentify(lab_df)
    /\ reorganised_lab_df' = df'
    /\ pc' = "labels"
    /\ UNCHANGED <<selected_variables, material_to_include, log_dir, earlier_calls,
                   err, audit>>

\* lines 80-85; the two names are one table until line 92
AlignLabels ==
    /\ pc = "labels"
    /\ df' = AlignEquivalentLabels(df)
    /\ reorganised_lab_df' = df'
    /\ pc' = "accents"
    /\ UNCHANGED <<args, earlier_calls, err, audit>>

\* line 88
NormalizeText ==
    /\ pc = "accents"
    /\ df' = remove_french_accents_and_cedillas_from_dataframe(df)
    /\ reorganised_lab_df' = df'
    /\ pc' = "restrict"
    /\ UNCHANGED <<args, earlier_calls, err, audit>>

\* lines 91-94
RestrictLabels ==
    /\ pc = "restrict"
    /\ df' = RestrictToSelected(df, selected_variables)
    /\ pc' = "materials"
    /\ UNCHANGED <<args, earlier_calls, err, reorganised_lab_df, audit>>

\* lines 98-103
FilterMaterials ==
    /\ pc = "materials"
    /\ df' = RestrictMaterials(MergeBloodMaterials(df, reorganised_lab_df),
                               material_to_include)
    /\ pc' = "blood_gas"
    /\ UNCHANGED <<args, earlier_calls, err, reorganised_lab_df, audit>>

\* lines 106-119
CheckBloodGas ==
    /\ pc = "blood_gas"
    /\ LET r == BloodGasFrom(df, 1)
       IN  /\ df' = r.df
           /\ err' = r.err
           /\ pc' = IF r.err = "" THEN "units" ELSE "error"
    /\ UNCHANGED <<args, earlier_calls, reorganised_lab_df, audit>>

\* lines 123-135
FilterUnits ==
    /\ pc = "units"
    /\ df' = RestrictUnits(MergeUnits(df))
    /\ pc' = "check_units"
    /\ UNCHANGED <<args, earlier_calls, err, reorganised_lab_df, audit>>

\* lines 138-145
CheckUnits ==
    /\ pc = "check_units"
    /\ IF DifferentUnits(df)
       THEN pc' = "error" /\ err' = "units"
       ELSE pc' = "values" /\ err' = err
    /\ UNCHANGED <<args, earlier_calls, df, reorganised_lab_df, audit>>

\* line 150
CorrectValues ==
    /\ pc = "values"
    /\ df' = correct_non_numerical_values(df)
    /\ pc' = "numeric"
    /\ UNCHANGED <<args, earlier_calls, err, reorganised_lab_df, audit>>

\* lines 152-161
CheckNumeric ==
    /\ pc = "numeric"
    /\ LET t == RemoveNonNumerical(df)
       IN  IF RemainingNonNumerical(t) # {}
           THEN df' = t /\ pc' = "error" /\ err' = "non_numeric"
           ELSE df' = ValuesToNumeric(t) /\ pc' = "negative" /\ err' = err
    /\ UNCHANGED <<args, earlier_calls, reorganised_lab_df, audit>>

\* lines 165-170
RemoveNegative ==
    /\ pc = "negative"
    /\ df' = CorrectNegative(df)
    /\ pc' = "range"
    /\ UNCHANGED <<args, earlier_calls, err, reorganised_lab_df, audit>>

\* lines 178-190
RestrictRange ==
    /\ pc = "range"
    /\ LET t == NullOutOfRange(df)
       IN  /\ n_observations_out_ouf_range' = CountNa(t)
           /\ df' = DropNa(t)
    /\ pc' = "stats"
    /\ UNCHANGED <<args, earlier_calls, err, reorganised_lab_df, median_observations, files>>

\* lines 194-198
Statistics ==
    /\ pc = "stats"
    /\ median_observations' = MedianObservations(df)
    /\ pc' = "log"
    /\ UNCHANGED <<args, earlier_calls, err, reorganised_lab_df, df, n_observations_out_ouf_range, files>>

AuditFiles ==
    {"lab_preprocessing_log.csv", "median_observations_per_case_admission_id.csv",
     "descriptive_stats.csv"}

\* lines 206-223
LogAndReturn ==
    /\ pc = "log"
    /\ files' = IF log_dir # "" THEN AuditFiles ELSE files
    /\ pc' = "done"
    /\ UNCHANGED <<args, earlier_calls, err, reorganised_lab_df, df, n_observations_out_ouf_range,
                   median_observations>>

Next ==
    \/ Start
    \/ AlignLabels
    \/ NormalizeText
    \/ RestrictLabels
    \/ FilterMaterials
    \/ CheckBloodGas
    \/ FilterUnits
    \/ CheckUnits
    \/ CorrectValues
    \/ CheckNumeric
    \/ RemoveNegative
    \/ RestrictRange
    \/ Statistics
    \/ LogAndReturn

Spec == Init /\ [][Next]_vars

\* the call has returned; df is the returned table
Returned == pc = "done"
Failed == pc = "error"

Terminal == Returned \/ Failed

-----------------------------------------------------------------------------
(* C1 *)

\* C1: whenever preprocess_labs has passed the unit check (and in particular
\* when it has returned), any two rows of the table with the same dosage_label
\* have the same unit_of_measure: every label present has exactly one unit, and
\* value correction, negative-value removal and range validation keep it so.
PastUnitCheck == pc \in {"values", "numeric", "negative", "range", "stats", "log", "done"}

OneUnitPerLabel ==
    PastUnitCheck =>
        \A i, j \in DOMAIN df :
            df[i].dosage_label = df[j].dosage_label
                => df[i].unit_of_measure = df[j].unit_of_measure

\* a returned table with two rows of one label, from an input in which a row of
\* that label with another unit was filtered out or merged
OneUnitPerLabelWitness ==
    /\ Returned
    /\ Len(df) = 2
    /\ df[1].dosage_label = df[2].dosage_label
    /\ lab_df[1].unit_of_measure # lab_df[2].unit_of_measure

-----------------------------------------------------------------------------
(* C2 *)

\* the table the unit steps receive: the input after label resolution, text
\* normalization, label restriction and the material steps
BeforeUnitSteps ==
    LET n == remove_french_accents_and_cedillas_from_dataframe(
                 AlignEquivalentLabels(CopyAndIdentify(lab_df)))
        m == RestrictMaterials(
                 MergeBloodMaterials(RestrictToSelected(n, selected_variables), n),
                 material_to_include)
    IN  BloodGasFrom(m, 1).df

\* the representative of a unit under the synonym groups
MergedUnit(u) ==
    IF \E g \in DOMAIN unit_of_measure_equivalents :
           \E k \in 2..Len(unit_of_measure_equivalents[g]) :
               unit_of_measure_equivalents[g][k] = u
    THEN LET g == CHOOSE h \in DOMAIN unit_of_measure_equivalents :
                      \E k \in 2..Len(unit_of_measure_equivalents[h]) :
                          unit_of_measure_equivalents[h][k] = u
         IN  unit_of_measure_equivalents[g][1]
    ELSE u

\* the row's unit, after merging, is allowed for the row's variable
UnitAllowed(r) ==
    r.dosage_label \in DOMAIN dosage_units_df
        => MergedUnit(r.unit_of_measure) \in dosage_units_df[r.dosage_label]

\* after synonym merging and the allow-list filter, some label of t still has
\* two units
TwoUnitsLeft(t) ==
    \E i, j \in DOMAIN t :
        /\ UnitAllowed(t[i])
        /\ UnitAllowed(t[j])
        /\ t[i].dosage_label = t[j].dosage_label
        /\ MergedUnit(t[i].unit_of_measure) # MergedUnit(t[j].unit_of_measure)

UnitContradiction == TwoUnitsLeft(BeforeUnitSteps)

\* C2 as stated: the call fails with an error if and only if, after unit-synonym
\* merging and the allow-list filter, some label present has more than one unit.
FailsIffUnitContradiction == Terminal => (Failed <=> UnitContradiction)

\* C2, amended: the call fails with the different-units error if and only if,
\* after unit-synonym merging and the allow-list filter, some label present has
\* more than one unit; a label whose other units were all removed by the allow
\* list does not make the call fail with that error.
UnitErrorIffUnitContradiction ==
    Terminal => ((Failed /\ err = "units") <=> UnitContradiction)

\* the call failed on two units of one label
UnitErrorWitness ==
    /\ Failed
    /\ err = "units"
    /\ \E i, j \in DOMAIN df :
        /\ df[i].dosage_label = df[j].dosage_label
        /\ df[i].unit_of_measure # df[j].unit_of_measure

-----------------------------------------------------------------------------
(* C3 *)

BloodGasFamily(label) ==
    \E g \in DOMAIN blood_gas_labels : Contains(label, blood_gas_labels[g])

-----------------------------------------------------------------------------
(* C4 *)

\* two pH rows, one arterial and one venous, pH selected and blood included
ArterialAndVenousInput ==
    /\ Len(lab_df) = 2
    /\ lab_df[1].dosage_label = "pH" /\ lab_df[1].material_label = "sga"
    /\ lab_df[2].dosage_label = "pH" /\ lab_df[2].material_label = "sgv"
    /\ "pH" \in selected_variables
    /\ "any_blood" \in material_to_include

\* C4: given two rows for pH, one with material 'sga' and one with material
\* 'sgv', both surviving material filtering, the call raises the
\* material-contradiction error instead of returning a table.
ArterialAndVenousIsFatal ==
    (Terminal /\ ArterialAndVenousInput) => (Failed /\ err = "materials")

-----------------------------------------------------------------------------
(* C5 *)

HasRange(label) ==
    \E j \in DOMAIN possible_value_ranges : possible_value_ranges[j].variable_label = label

InRange(r) ==
    \A j \in DOMAIN possible_value_ranges :
        possible_value_ranges[j].variable_label = r.dosage_label
            => /\ r.value.k = "num"
               /\ possible_value_ranges[j].Min <= r.value.n
               /\ r.value.n <= possible_value_ranges[j].Max

ReturnedInRange == Returned => \A i \in DOMAIN df : InRange(df[i])

\* C5: in every returned table, every row of a variable with a configured range
\* has Min <= value <= Max; the range step keeps exactly the rows that have no
\* configured range or lie within it, the two ends included, and keeps them as
\* they are (a value out of range is removed, not clamped).
RangeValidation ==
    /\ []ReturnedInRange
    /\ [][pc = "range" => df' = SelectSeq(df, InRange)]_vars

\* a returned row whose value is an end of its range, from a call that removed
\* a value out of range
RangeWitness ==
    /\ Returned
    /\ n_observations_out_ouf_range > 0
    /\ \E i \in DOMAIN df :
        \E j \in DOMAIN possible_value_ranges :
            /\ possible_value_ranges[j].variable_label = df[i].dosage_label
            /\ df[i].value.n \in {possible_value_ranges[j].Min, possible_value_ranges[j].Max}

-----------------------------------------------------------------------------
(* C6 *)

\* the numbers that the tokens of the exclusion list read as
ExcludedNumbers ==
    {ToNumeric(Str(tok)) : tok \in non_numerical_values_to_remove} \ {NaN}

\* C6: in every returned table, every value is a finite number and no value is
\* one of the tokens of the exclusion list, whatever the input value text.
ReturnedValuesFiniteAndNotExcluded ==
    Returned =>
        \A i \in DOMAIN df :
            df[i].value.k = "num" /\ df[i].value \notin ExcludedNumbers

-----------------------------------------------------------------------------
(* C7 *)

\* text that is neither an excluded token nor readable as a number
UnknownText(v) ==
    /\ v.k = "str"
    /\ v.s \notin non_numerical_values_to_remove
    /\ ToNumeric(v).k = "nan"

\* C7: if, after apostrophe stripping, censored-value correction and removal of
\* the exclusion-list tokens, a surviving row has a value that is not readable
\* as a number, the call fails with an error and returns no table.
UnknownTextIsFatal ==
    [][(pc = "numeric" /\ \E i \in DOMAIN df : UnknownText(df[i].value))
           => (pc' = "error" /\ err' = "non_numeric")]_vars

\* the call failed on a censored literal its variable has no rule for
UnknownTextWitness ==
    /\ Failed
    /\ err = "non_numeric"
    /\ \E i \in DOMAIN df :
        df[i].dosage_label = "ALAT" /\ df[i].value = Str(">83.2")

-----------------------------------------------------------------------------
(* C8 *)

\* C8: in every returned table, the label of every row is one of the caller's
\* selected_variables.
ReturnedLabelsSelected ==
    Returned => \A i \in DOMAIN df : df[i].dosage_label \in selected_variables

\* a returned table that is not empty, from an input with a label not selected
LabelRestrictionWitness ==
    /\ Returned
    /\ df # <<>>
    /\ \E i \in DOMAIN lab_df : lab_df[i].dosage_label = "sodium"

-----------------------------------------------------------------------------
(* correct_non_numerical_values called on its own *)

WorkRow(label, value) ==
    [idx |-> 1, case_admission_id |-> "1_1234", dosage_label |-> label,
     material_label |-> "any_blood", unit_of_measure |-> "", value |-> value]

RuleLabels == UNION {censored_value_rules[j].labels : j \in DOMAIN censored_value_rules}
RuleLiterals == {censored_value_rules[j].literal : j \in DOMAIN censored_value_rules}

\* every label and literal of the rules, a label without rules, and texts that
\* are no literal: a number, texts with apostrophes, a missing value
CorrectorRows ==
    {WorkRow(l, v) : l \in RuleLabels \cup {"albumine"},
                     v \in {Str(x) : x \in RuleLiterals \cup {"10", "1'000", ">8'3.2"}}
                           \cup {NaN}}

CorrectorTables ==
    {<<r>> : r \in CorrectorRows}
    \cup {<<r, [q EXCEPT !.idx = 2]>> :
            r \in CorrectorRows,
            q \in {WorkRow("glucose", Str(">83.2")), WorkRow("albumine", Str("1'000"))}}

InitCorrector ==
    /\ df \in CorrectorTables
    /\ pc = "corrector"
    /\ lab_df = <<>>
    /\ selected_variables = {}
    /\ material_to_include = {}
    /\ log_dir = ""
    /\ err = ""
    /\ reorganised_lab_df = <<>>
    /\ n_observations_out_ouf_range = 0
    /\ median_observations = <<>>
    /\ files = {}
    /\ earlier_calls = <<>>

\* lines 226-307
CallCorrector ==
    /\ pc = "corrector"
    /\ df' = correct_non_numerical_values(df)
    /\ pc' = "corrected"
    /\ UNCHANGED <<args, earlier_calls, err, reorganised_lab_df, audit>>

NextCorrector == CallCorrector

SpecCorrector == InitCorrector /\ [][NextCorrector]_vars

-----------------------------------------------------------------------------
(* C9 *)

\* the (label, text) pair is in the rule table
InRuleTable(label, v) ==
    /\ v.k = "str"
    /\ \E j \in DOMAIN censored_value_rules :
        label \in censored_value_rules[j].labels /\ censored_value_rules[j].literal = v.s

\* the threshold the literal names, times 1.05 after '>' and times 0.95 after '<'
Estimate(literal) ==
    LET threshold == ToNumeric(Str(Tail1(literal))).n
    IN  IF Char(literal, 1) = ">" THEN (threshold \div 100) * 105
        ELSE (threshold \div 100) * 95

\* C9 as stated: a row whose (label, text) pair is in the rule table gets the
\* estimate; a row whose pair is not in the table is left unchanged.
CensoredValueLawAsStated ==
    [][pc = "corrector" =>
        \A i \in DOMAIN df :
            IF InRuleTable(df[i].dosage_label, df[i].value)
            THEN df'[i] = [df[i] EXCEPT !.value = Num(Estimate(df[i].value.s))]
            ELSE df'[i] = df[i]]_vars

WithoutApostrophes(v) == IF v.k = "str" THEN Str(StrRemove(v.s, "'")) ELSE v

\* C9, amended: the corrector first removes the apostrophes of the value text.
\* A row whose label is in a rule's label set and whose text, apostrophes
\* removed, is the rule's literal gets threshold*1.05 for a '>' literal and
\* threshold*0.95 for a '<' literal ('>83.2' for glucose gives 87.36, '<5' for
\* ALAT gives 4.75); a row whose pair is not in the table is left unchanged
\* apart from the removal of the apostrophes.
CensoredValueLaw ==
    [][pc = "corrector" =>
        /\ DOMAIN df' = DOMAIN df
        /\ \A i \in DOMAIN df :
            LET v == WithoutApostrophes(df[i].value)
            IN  /\ IF InRuleTable(df[i].dosage_label, v)
                   THEN df'[i] = [df[i] EXCEPT !.value = Num(Estimate(v.s))]
                   ELSE df'[i] = [df[i] EXCEPT !.value = v]
                /\ (df[i].dosage_label = "glucose" /\ df[i].value = Str(">83.2"))
                       => df'[i].value = Num(D(8736, 2))
                /\ (df[i].dosage_label = "ALAT" /\ df[i].value = Str("<5"))
                       => df'[i].value = Num(D(475, 2))]_vars

\* the corrector has estimated '<5' for ALAT and '>83.2' for glucose
CensoredValueWitness ==
    /\ pc = "corrected"
    /\ \E i \in DOMAIN df : df[i].dosage_label = "ALAT" /\ df[i].value = Num(D(475, 2))
    /\ \E i \in DOMAIN df : df[i].dosage_label = "glucose" /\ df[i].value = Num(D(8736, 2))

-----------------------------------------------------------------------------
(* preprocess_labs on the rows of test_preprocess_labs_median_counts *)

\* albumine rows of three cases; the value ERROR is an excluded token, so such a
\* row does not survive
MedianRows ==
    {InputRow(c[1], c[2], "albumine", "sga", "g/l", v) :
        c \in {<<"1", "1234">>, <<"2", "9999">>, <<"3", "7">>},
        v \in {Str("10"), Str("ERROR")}}

InitMedian ==
    /\ lab_df \in Tables(MedianRows, MaxMedianRows)
    /\ selected_variables = {"albumine"}
    /\ material_to_include = {"any_blood"}
    /\ log_dir = "logs"
    /\ InitLocals

SpecMedian == InitMedian /\ [][Next]_vars

-----------------------------------------------------------------------------
(* C10 *)

\* the cases that have a surviving row of the variable
CasesWith(label) ==
    {c \in {df[i].case_admission_id : i \in DOMAIN df} :
        \E i \in DOMAIN df : df[i].case_admission_id = c /\ df[i].dosage_label = label}

\* the number of surviving rows of the case and the variable
Observations(c, label) ==
    Cardinality({i \in DOMAIN df :
        df[i].case_admission_id = c /\ df[i].dosage_label = label})

\* v is the k-th smallest number of observations among the cases of the variable
IsKth(v, k, label) ==
    /\ \E c \in CasesWith(label) : Observations(c, label) = v
    /\ Cardinality({c \in CasesWith(label) : Observations(c, label) < v}) < k
    /\ Cardinality({c \in CasesWith(label) : Observations(c, label) <= v}) >= k

\* m is the median: the mean of the lower and the upper middle observation count
IsMedian(m, label) ==
    LET n == Cardinality(CasesWith(label))
    IN  \E lo, hi \in 1..Len(df) :
            /\ IsKth(lo, (n + 1) \div 2, label)
            /\ IsKth(hi, n \div 2 + 1, label)
            /\ 2 * m = (lo + hi) * Scale

\* two rows of one case and one row of another case survive, and nothing else
TwoAndOne ==
    /\ Len(df) = 3
    /\ \A i \in DOMAIN df : df[i].dosage_label = "albumine"
    /\ \E a, b \in CasesWith("albumine") :
        a # b /\ Observations(a, "albumine") = 2 /\ Observations(b, "albumine") = 1

-----------------------------------------------------------------------------
(* preprocess_labs on a wide table: lines 55-74                             *)
(*                                                                         *)
(* A wide table is a record of its column names, in order, and its rows; a *)
(* row maps a column name to its cell.  The cell of an '{analyte}_value'   *)
(* column is a value cell, the other cells are text.                       *)

MaxWideRows == 2

identification_columns == <<"case_admission_id", "sample_date">>

\* position of the first "_" of c, or Len(c) + 1
RECURSIVE UnderscorePos(_, _)
UnderscorePos(c, i) ==
    IF i > Len(c) THEN i ELSE IF Char(c, i) = "_" THEN i ELSE UnderscorePos(c, i + 1)

\* c.split('_')[0]
SplitFirst(c) == SubSeq(c, 1, UnderscorePos(c, 1) - 1)

\* '_'.join(c.split('_')[1:])
JoinRest(c) == SubSeq(c, UnderscorePos(c, 1) + 1, Len(c))

\* c.startswith(p)
StartsWith(c, p) == Len(p) <= Len(c) /\ SubSeq(c, 1, Len(p)) = p

\* lines 45-48 on a wide table: the case identifier is a new last column, the
\* columns of columns_to_drop are gone
IdentifyWide(w) ==
    [columns |-> SelectSeq(w.columns, LAMBDA c : c \notin {"patient_id", "eds_end_4digit"})
                     \o <<"case_admission_id">>,
     rows |-> [i \in DOMAIN w.rows |->
                 [c \in (DOMAIN w.rows[i] \ {"patient_id", "eds_end_4digit"})
                        \cup {"case_admission_id"} |->
                     IF c = "case_admission_id"
                     THEN create_ehr_case_identification_column(w.rows[i])
                     ELSE w.rows[i][c]]]]

\* line 60
LabNames(w) ==
    {SplitFirst(c) : c \in Range(w.columns) \ Range(identification_columns)}

\* line 67
SelectedColumns(w, lab_name) ==
    identification_columns \o SelectSeq(w.columns, LAMBDA c : SplitFirst(c) = lab_name)

\* lines 69-70: the new column names
RenamedColumns(sel, lab_name) ==
    LET started == SelectSeq(sel, LAMBDA c : StartsWith(c, lab_name))
    IN  identification_columns \o [k \in DOMAIN started |-> JoinRest(started[k])]

\* lines 68-71 on one row: the selected cells under their new names, and the tag
RenameRow(r, sel, new, lab_name) ==
    [n \in Range(new) \cup {"lab_name"} |->
        IF n = "lab_name" THEN lab_name
        ELSE r[sel[CHOOSE k \in DOMAIN new : new[k] = n]]]

\* lines 67-71, one analyte: err is set where the code raises
IndividualLab(w, lab_name) ==
    LET sel == SelectedColumns(w, lab_name)
        new == RenamedColumns(sel, lab_name)
        val == lab_name \o "_value"
    IN  IF val \notin Range(sel) THEN [df |-> <<>>, err |-> "KeyError"]
        ELSE IF Len(new) # Len(sel) THEN [df |-> <<>>, err |-> "ValueError"]
        ELSE [df |-> LET kept == SelectSeq(w.rows, LAMBDA r : ~IsNull(r[val]))
                     IN  [k \in DOMAIN kept |-> RenameRow(kept[k], sel, new, lab_name)],
              err |-> ""]

\* the orders in which the loop of line 66 can visit the set lab_names
IterationOrders(names) ==
    {o \in [1..Cardinality(names) -> names] :
        \A j, k \in DOMAIN o : j # k => o[j] # o[k]}

\* lines 66-72 from the g-th analyte of the order on
RECURSIVE SplitFrom(_, _, _, _)
SplitFrom(w, order, g, acc) ==
    IF g > Len(order) THEN [df |-> acc, err |-> ""]
    ELSE LET one == IndividualLab(w, order[g])
         IN  IF one.err # "" THEN [df |-> <<>>, err |-> one.err]
             ELSE SplitFrom(w, order, g + 1, acc \o one.df)

\* ignore_index = True of line 74
ResetIndex(t) ==
    [k \in DOMAIN t |->
        [f \in DOMAIN t[k] \cup {"idx"} |-> IF f = "idx" THEN k ELSE t[k][f]]]

\* lines 60-74; pd.concat of no table raises
Reorganise(w, order) ==
    LET r == SplitFrom(w, order, 1, <<>>)
    IN  IF Len(order) = 0 THEN [df |-> <<>>, err |-> "ValueError"]
        ELSE [df |-> ResetIndex(r.df), err |-> r.err]

-----------------------------------------------------------------------------
(* Wide inputs *)

Fields == <<"dosage_label", "material_label", "unit_of_measure", "value">>

AnalyteColumns(a) == [k \in DOMAIN Fields |-> a \o "_" \o Fields[k]]

\* the columns of a wide table with the analytes of the sequence names
WideColumns(names) ==
    IF Len(names) = 1
    THEN <<"patient_id", "eds_end_4digit", "sample_date">> \o AnalyteColumns(names[1])
    ELSE <<"patient_id", "eds_end_4digit", "sample_date">>
             \o AnalyteColumns(names[1]) \o AnalyteColumns(names[2])

\* what a row holds for one analyte: its label, its unit and a value cell
Measurement(label, unit, value) == [dosage_label |-> label, unit |-> unit, value |-> value]

WideRow(names, p, e, date, m) ==
    [c \in Range(WideColumns(names)) |->
        CASE c = "patient_id" -> p
          [] c = "eds_end_4digit" -> e
          [] c = "sample_date" -> date
          [] OTHER ->
               LET a == SplitFirst(c)
                   f == JoinRest(c)
               IN  CASE f = "dosage_label" -> m[a].dosage_label
                     [] f = "material_label" -> "sgv"
                     [] f = "unit_of_measure" -> m[a].unit
                     [] OTHER -> m[a].value]

GlucoseMeasurements ==
    {Measurement("glucose", "mmol/l", v) : v \in {Str("10"), Str("0.5"), NaN}}

SodiumMeasurements == {Measurement("sodium", "mmol/l", v) : v \in {Str("140"), NaN}}

CalciumMeasurements == {Measurement("calcium", "mmol/l", v) : v \in {Str("2.3"), NaN}}

WideRowsOf(names, second) ==
    {WideRow(names, c[1], c[2], c[3], [a \in Range(names) |->
                                          IF a = "glucose" THEN g ELSE s]) :
        c \in {<<"1", "1234", "2020-01-01">>, <<"2", "99", "2020-01-02">>},
        g \in GlucoseMeasurements,
        s \in second}

\* wide tables of glucose and sodium, and of glucose and an analyte named 'ca'
WideTables ==
    {[columns |-> WideColumns(<<"glucose", "sodium">>), rows |-> t] :
        t \in Tables(WideRowsOf(<<"glucose", "sodium">>, SodiumMeasurements), MaxWideRows)}
    \cup
    {[columns |-> WideColumns(<<"glucose", "ca">>), rows |-> t] :
        t \in Tables(WideRowsOf(<<"glucose", "ca">>, CalciumMeasurements), MaxWideRows)}

InitWide ==
    /\ lab_df \in WideTables
    /\ selected_variables = {"glucose", "sodium", "calcium"}
    /\ material_to_include = {"any_blood"}
    /\ log_dir = "logs"
    /\ InitLocals

\* lines 45-76, an input that is not in the target structure
StartWide ==
    /\ pc = "start"
    /\ LET w == IdentifyWide(lab_df)
       IN  \E order \in IterationOrders(LabNames(w)) :
               LET r == Reorganise(w, order)
               IN  /\ df' = r.df
                   /\ reorganised_lab_df' = r.df
                   /\ err' = r.err
                   /\ pc' = IF r.err = "" THEN "labels" ELSE "error"
    /\ UNCHANGED <<args, earlier_calls, audit>>

NextWide ==
    \/ StartWide
    \/ AlignLabels
    \/ NormalizeText
    \/ RestrictLabels
    \/ FilterMaterials
    \/ CheckBloodGas
    \/ FilterUnits
    \/ CheckUnits
    \/ CorrectValues
    \/ CheckNumeric
    \/ RemoveNegative
    \/ RestrictRange
    \/ Statistics
    \/ LogAndReturn

SpecWide == InitWide /\ [][NextWide]_vars

-----------------------------------------------------------------------------
(* C11 *)

\* the analytes of a wide table: the names a for which it has a column a_value
Analytes(w) ==
    {SubSeq(c, 1, Len(c) - 6) :
        c \in {d \in Range(w.columns) : Len(d) > 6 /\ SubSeq(d, Len(d) - 5, Len(d)) = "_value"}}

\* the fields of analyte a in the wide table
FieldsOf(w, a) ==
    {SubSeq(c, Len(a) + 2, Len(c)) :
        c \in {d \in Range(w.columns) : Len(d) > Len(a) + 1 /\ SubSeq(d, 1, Len(a) + 1) = a \o "_"}}

\* the long row of the pair (input row r, analyte a)
LongRow(w, r, a) ==
    [f \in FieldsOf(w, a) \cup {"case_admission_id", "sample_date", "lab_name"} |->
        CASE f = "case_admission_id" ->
                 r["patient_id"] \o "_"
                     \o SubSeq("0000", 1, 4 - Len(r["eds_end_4digit"])) \o r["eds_end_4digit"]
          [] f = "sample_date" -> r["sample_date"]
          [] f = "lab_name" -> a
          [] OTHER -> r[a \o "_" \o f]]

\* the row without its index label
Unindexed(r) == [f \in DOMAIN r \ {"idx"} |-> r[f]]

\* t is the lossless reshape of w: the rows tagged a are, in input order, the
\* long rows of the input rows whose a_value is not missing; every row is tagged
\* with an analyte; the rows of one analyte are adjacent
IsLosslessReshape(w, t) ==
    /\ \A k \in DOMAIN t : t[k].lab_name \in Analytes(w)
    /\ \A a \in Analytes(w) :
        LET block == SelectSeq(t, LAMBDA r : r.lab_name = a)
            present == SelectSeq(w.rows, LAMBDA r : r[a \o "_value"] # NaN)
        IN  /\ Len(block) = Len(present)
            /\ \A k \in DOMAIN block : Unindexed(block[k]) = LongRow(w, present[k], a)
    /\ \A j, k, l \in DOMAIN t :
        (j < k /\ k < l /\ t[j].lab_name = t[l].lab_name) => t[k].lab_name = t[j].lab_name

\* C11: for a wide input, the reshape produces a long table that holds exactly
\* one row for each pair (input row, analyte) whose '{analyte}_value' is not
\* missing, tagged with the analyte name and carrying the row's identifier
\* columns, and no other rows; the rows come one analyte block at a time, in
\* input order within a block.
WideReshapeLossless ==
    [][pc = "start" => (pc' = "labels" /\ IsLosslessReshape(lab_df, reorganised_lab_df'))]_vars

\* the same for the wide tables in which no analyte name is the beginning of the
\* name of an identification column
OrdinaryAnalyteNames ==
    \A a \in Analytes(lab_df) :
        \A k \in DOMAIN identification_columns :
            SubSeq(identification_columns[k], 1, Len(a)) # a

WideReshapeLosslessOrdinaryNames ==
    [][(pc = "start" /\ OrdinaryAnalyteNames)
           => (pc' = "labels" /\ IsLosslessReshape(lab_df, reorganised_lab_df'))]_vars

\* a reshaped table of two analyte blocks, from an input with a missing value
WideReshapeWitness ==
    /\ pc = "labels"
    /\ Len(reorganised_lab_df) = 3
    /\ Len(lab_df.rows) = 2
    /\ reorganised_lab_df[1].lab_name = "sodium"
    /\ reorganised_lab_df[3].lab_name = "glucose"

-----------------------------------------------------------------------------
(* remove_french_accents_and_cedillas_from_dataframe called on its own      *)

MaxAccentRows == 2

AccentRow(label, material, unit, value) ==
    [idx |-> 1, case_admission_id |-> "1_1234", dosage_label |-> label,
     material_label |-> material, unit_of_measure |-> unit, value |-> value]

\* rows with accents, cedillas, ligatures and signs in every text column, rows
\* of plain text, and cells that are numbers or missing
AccentRows ==
    {AccentRow("glycémie", "sgv cathéter", "mmol/l", Str("10")),
     AccentRow("hémoglobine", "sga", "g/l", Str("Hémolysé")),
     AccentRow("protéine C-réactive", "Sang", "mg/l", Str("NON INTERPRÉT.")),
     AccentRow("créatinine", "cathéter artériel", "µmol/l", NaN),
     AccentRow("surface", "sgv", "m²", Num(2 * Scale)),
     AccentRow("température", "sgv", "°C", Num(37 * Scale)),
     AccentRow("cæcum", "reçu à l'hôpital", "", NaN),
     AccentRow("glucose", "sgv", "mmol/l", Str("10")),
     AccentRow("ÉTAT", "sgv", "", Str("où"))}

InitAccents ==
    /\ df \in Tables(AccentRows, MaxAccentRows)
    /\ pc = "accents_once"
    /\ lab_df = <<>>
    /\ selected_variables = {}
    /\ material_to_include = {}
    /\ log_dir = ""
    /\ err = ""
    /\ reorganised_lab_df = <<>>
    /\ n_observations_out_ouf_range = 0
    /\ median_observations = <<>>
    /\ files = {}
    /\ earlier_calls = <<>>

\* the first call
RemoveAccentsOnce ==
    /\ pc = "accents_once"
    /\ df' = remove_french_accents_and_cedillas_from_dataframe(df)
    /\ pc' = "accents_twice"
    /\ UNCHANGED <<args, earlier_calls, err, reorganised_lab_df, audit>>

\* a second call, on the result of the first
RemoveAccentsTwice ==
    /\ pc = "accents_twice"
    /\ df' = remove_french_accents_and_cedillas_from_dataframe(df)
    /\ pc' = "accents_done"
    /\ UNCHANGED <<args, earlier_calls, err, reorganised_lab_df, audit>>

NextAccents == RemoveAccentsOnce \/ RemoveAccentsTwice

SpecAccents == InitAccents /\ [][NextAccents]_vars

-----------------------------------------------------------------------------
(* C12 *)

\* the printable ASCII characters (the grave accent aside)
AsciiCharacters ==
    {" ", "!", "\"", "#", "$", "%", "&", "'", "(", ")", "*", "+",
     ",", "-", ".", "/", "0", "1", "2", "3", "4", "5", "6", "7",
     "8", "9", ":", ";", "<", "=", ">", "?", "@", "A", "B", "C",
     "D", "E", "F", "G", "H", "I", "J", "K", "L", "M", "N", "O",
     "P", "Q", "R", "S", "T", "U", "V", "W", "X", "Y", "Z", "[",
     "\\", "]", "^", "_", "a", "b", "c", "d", "e", "f", "g",
     "h", "i", "j", "k", "l", "m", "n", "o", "p", "q", "r", "s",
     "t", "u", "v", "w", "x", "y", "z", "{", "|", "}", "~"}

OnlyAscii(text) == \A k \in 1..Len(text) : SubSeq(text, k, k) \in AsciiCharacters

\* every text cell of the table is ASCII
TextColumnsAscii(t) ==
    \A i \in DOMAIN t :
        /\ OnlyAscii(t[i].case_admission_id)
        /\ OnlyAscii(t[i].dosage_label)
        /\ OnlyAscii(t[i].material_label)
        /\ OnlyAscii(t[i].unit_of_measure)
        /\ t[i].value.k = "str" => OnlyAscii(t[i].value.s)

\* C12: applying remove_french_accents_and_cedillas_from_dataframe to its own
\* result changes nothing (twice is the same as once), and the result of one
\* application has only ASCII characters in its text columns.
NormalizationIdempotent ==
    /\ [](pc \in {"accents_twice", "accents_done"} => TextColumnsAscii(df))
    /\ [][pc = "accents_twice" => df' = df]_vars

\* both calls were made on a table that had a text the first call changed
NormalizationWitness ==
    /\ pc = "accents_done"
    /\ \E i \in DOMAIN df :
        /\ df[i].dosage_label = "creatinine"
        /\ df[i].material_label = "catheter arteriel"
        /\ df[i].unit_of_measure = "mol/l"

-----------------------------------------------------------------------------
(* The caller calls again with the same arguments *)

MaxCalls == 2
MaxCallRows == 2

\* inputs of calls that return and of calls that raise
CallRows ==
    {InputRow("1", "1234", "glucose", "sgv", "mmol/l", v) :
        v \in {Str("10"), Str("0.5"), Str(">83.2")}}
    \cup {InputRow("1", "1234", "glucose", "sgv", "mg/dl", Str("10")),
          InputRow("1", "1234", "ALAT", "sgv", "U/l", Str("7")),
          InputRow("1", "1234", "ALAT", "sgv", "UI/ml", Str("7")),
          InputRow("1", "1234", "ALAT", "sgv", "U/l", Str(">83.2")),
          InputRow("1", "1234", "Hb", "sgv cathéter", "g/l", Str("120")),
          InputRow("1", "1234", "pH", "sga", "", Str("7.4")),
          InputRow("2", "99", "sodium", "sgv", "mmol/l", Str("10"))}

InitCalls ==
    /\ lab_df \in Tables(CallRows, MaxCallRows)
    /\ \E c \in Configs :
        /\ selected_variables = c.selected_variables
        /\ material_to_include = c.material_to_include
        /\ log_dir = c.log_dir
    /\ InitLocals

\* what a call gave its caller: the table returned or the exception raised, and
\* what it reported
Outcome ==
    [pc |-> pc, err |-> err, df |-> df,
     n_observations_out_ouf_range |-> n_observations_out_ouf_range,
     median_observations |-> median_observations]

\* the caller calls preprocess_labs again, with the arguments of the call that
\* has ended: the locals of the new call are new, the files written stay
CallAgain ==
    /\ pc \in {"done", "error"}
    /\ Len(earlier_calls) + 1 < MaxCalls
    /\ earlier_calls' = Append(earlier_calls, Outcome)
    /\ pc' = "start"
    /\ err' = ""
    /\ reorganised_lab_df' = <<>>
    /\ df' = <<>>
    /\ n_observations_out_ouf_range' = 0
    /\ median_observations' = <<>>
    /\ UNCHANGED <<args, files>>



-----------------------------------------------------------------------------
(* mimic_preprocess_labs: text and float helpers *)

\* position of the first occurrence of sep in s from position i on, or 0
RECURSIVE Find(_, _, _)
Find(s, sep, i) ==
    IF i + Len(sep) - 1 > Len(s) THEN 0
    ELSE IF SubSeq(s, i, i + Len(sep) - 1) = sep THEN i
    ELSE Find(s, sep, i + 1)

\* s.split(sep): the pieces of s between the occurrences of sep
RECURSIVE Split(_, _)
Split(s, sep) ==
    LET at == Find(s, sep, 1)
    IN  IF at = 0 THEN <<s>>
        ELSE <<SubSeq(s, 1, at - 1)>> \o Split(SubSeq(s, at + Len(sep), Len(s)), sep)

\* s.strip() of blanks
RECURSIVE Strip(_)
Strip(s) ==
    IF s = "" THEN ""
    ELSE IF Char(s, 1) = " " THEN Strip(Tail1(s))
    ELSE IF Char(s, Len(s)) = " " THEN Strip(SubSeq(s, 1, Len(s) - 1))
    ELSE s

\* float(s): the number read, or ok = FALSE where float raises ValueError
Float(s) ==
    LET t == Strip(s)
        v == ToNumeric(Str(t))
    IN  IF v.k = "nan" /\ Lower(t) \notin {"nan", "+nan", "-nan"}
        THEN [ok |-> FALSE, v |-> NaN] ELSE [ok |-> TRUE, v |-> v]

\* Series.str.contains(pat, case=False, na=False) on one cell
ContainsNoCase(v, pat) == v.k = "str" /\ Contains(Lower(v.s), Lower(pat))

\* the digits of a natural number
RECURSIVE NatToText(_)
NatToText(n) ==
    IF n < 10 THEN SubSeq("0123456789", n + 1, n + 1)
    ELSE NatToText(n \div 10) \o SubSeq("0123456789", (n % 10) + 1, (n % 10) + 1)

\* the fraction digits, trailing zeros cut, one digit at least
RECURSIVE CutZeros(_)
CutZeros(s) ==
    IF Len(s) > 1 /\ Char(s, Len(s)) = "0" THEN CutZeros(SubSeq(s, 1, Len(s) - 1)) ELSE s

\* str(x) of a float, as astype(str) writes it
FloatToText(v) ==
    IF v.k = "nan" THEN "nan"
    ELSE IF v.k = "inf" THEN (IF v.n < 0 THEN "-inf" ELSE "inf")
    ELSE LET a == IF v.n < 0 THEN -v.n ELSE v.n
             frac == NatToText(Scale + (a % Scale))
         IN  (IF v.n < 0 THEN "-" ELSE "") \o NatToText(a \div Scale) \o "."
                 \o CutZeros(SubSeq(frac, 2, Len(frac)))

\* x * f of two floats (the whole and the fraction of x multiplied apart)
Times(x, f) == (x \div Scale) * f + ((x % Scale) * f) \div Scale

\* the cell x * f
TimesCell(v, f) ==
    IF v.k = "num" THEN Num(Times(v.n, f))
    ELSE IF v.k = "inf" /\ f # 0 THEN Inf(IF f > 0 THEN v.n ELSE -v.n)
    ELSE NaN

-----------------------------------------------------------------------------
(* mimic_preprocess_labs, step by step                                      *)
(*                                                                         *)
(* A row of the alternate source has the columns hadm_id, charttime, label,*)
(* value (text), valuenum (float) and valueuom; idx is its index label.    *)

(* The reference table mimic_equivalence_lab_values.xlsx is data shipped    *)
(* beside the module; the model uses a small table of the shape the code   *)
(* reads.  An empty text stands for an empty cell of the sheet.            *)
mimic_equivalence_lab_values ==
    << [DPI_name |-> "glucose", MIMIC_equivalent_name |-> "Glucose",
        other_MIMIC_equivalents |-> "", unit_conversion_needed |-> 1,
        multiplicative_factor |-> D(555, 4), DPI_units |-> "mmol/l"],
       [DPI_name |-> "sodium", MIMIC_equivalent_name |-> "Sodium",
        other_MIMIC_equivalents |-> "Sodium, Whole Blood", unit_conversion_needed |-> 0,
        multiplicative_factor |-> 0, DPI_units |-> "mmol/l"],
       [DPI_name |-> "PTT", MIMIC_equivalent_name |-> "PTT",
        other_MIMIC_equivalents |-> "", unit_conversion_needed |-> 0,
        multiplicative_factor |-> 0, DPI_units |-> ""],
       [DPI_name |-> "calcium corrige", MIMIC_equivalent_name |-> "",
        other_MIMIC_equivalents |-> "", unit_conversion_needed |-> 0,
        multiplicative_factor |-> 0, DPI_units |-> "mmol/l"],
       [DPI_name |-> "lactate", MIMIC_equivalent_name |-> "",
        other_MIMIC_equivalents |-> "", unit_conversion_needed |-> 0,
        multiplicative_factor |-> 0, DPI_units |-> "mmol/l"] >>

\* lines 327-328
SelectedReferenceValues(sel) ==
    SelectSeq(mimic_equivalence_lab_values, LAMBDA row : row.DPI_name \in sel)

\* line 338
EquivalenceList(row) ==
    {row.MIMIC_equivalent_name, row.other_MIMIC_equivalents} \ {""}

\* lines 332-340 from the g-th reference row on; err is set where the loop raises
RECURSIVE MimicAlignFrom(_, _, _)
MimicAlignFrom(t, ref, g) ==
    IF g > Len(ref) THEN [df |-> t, err |-> ""]
    ELSE IF ref[g].MIMIC_equivalent_name = ""
         THEN IF ref[g].DPI_name = "calcium corrige" THEN MimicAlignFrom(t, ref, g + 1)
              ELSE [df |-> t, err |-> "no_equivalent"]
         ELSE MimicAlignFrom(
                  [i \in DOMAIN t |->
                      IF t[i].label \in EquivalenceList(ref[g])
                      THEN [t[i] EXCEPT !.label = ref[g].DPI_name] ELSE t[i]],
                  ref, g + 1)

\* the rows of t at the positions of keep, in order
RECURSIVE KeepPositions(_, _, _)
KeepPositions(t, keep, k) ==
    IF k > Len(t) THEN <<>>
    ELSE (IF k \in keep THEN <<t[k]>> ELSE <<>>) \o KeepPositions(t, keep, k + 1)

\* the columns of a row, its index label aside
WithoutIndex(r) == [f \in DOMAIN r \ {"idx"} |-> r[f]]

\* DataFrame.drop_duplicates(): the first of the rows with the same cells
DropDuplicates(t) ==
    KeepPositions(t, {k \in DOMAIN t :
                         \A j \in 1..(k - 1) : WithoutIndex(t[j]) # WithoutIndex(t[k])}, 1)

\* lines 346-347
HadmCharttime(r) == r.hadm_id \o "_" \o r.charttime

\* lines 345-349: the calcium and albumin rows whose admission and chart time
\* another of these rows has too
CalciumComponents(t) ==
    LET c == DropDuplicates(
                 SelectSeq(t, LAMBDA r : r.label \in {"Calcium, Total", "Albumin"}))
    IN  KeepPositions(c, {k \in DOMAIN c :
                             \E j \in DOMAIN c :
                                 j # k /\ HadmCharttime(c[j]) = HadmCharttime(c[k])}, 1)

\* lines 358-359
SimultaneousAlbumin(c, row) ==
    SelectSeq(c, LAMBDA r : r.label = "Albumin" /\ r.charttime = row.charttime)

\* lines 360-361: total * 0.2495 + 0.02 * (40 - albumin * 10)
CorrectedValue(calcium, albumin) ==
    IF calcium.k = "num" /\ albumin.k = "num"
    THEN Num(Times(calcium.n, D(2495, 4)) + Times(D(2, 2), 40 * Scale - albumin.n * 10))
    ELSE NaN

\* lines 351-368 from the k-th calcium row on; err is set where .values[0] raises
RECURSIVE CorrectedCalciumFrom(_, _, _)
CorrectedCalciumFrom(c, calcium, k) ==
    IF k > Len(calcium) THEN [df |-> <<>>, err |-> ""]
    ELSE LET albumin == SimultaneousAlbumin(c, calcium[k])
             rest == CorrectedCalciumFrom(c, calcium, k + 1)
         IN  IF albumin = <<>> THEN [df |-> <<>>, err |-> "IndexError"]
             ELSE IF rest.err # "" THEN rest
             ELSE LET v == CorrectedValue(calcium[k].valuenum, albumin[1].valuenum)
                  IN  [df |-> <<[calcium[k] EXCEPT !.label = "calcium corrige",
                                                   !.value = v,
                                                   !.valuenum = v,
                                                   !.valueuom = "mmol/l"]>> \o rest.df,
                       err |-> ""]

\* lines 343-369
CorrectedCalcium(t, sel) ==
    IF "calcium corrige" \notin sel THEN [df |-> t, err |-> ""]
    ELSE LET c == CalciumComponents(t)
             r == CorrectedCalciumFrom(c, SelectSeq(c, LAMBDA x : x.label = "Calcium, Total"), 1)
         IN  [df |-> t \o r.df, err |-> r.err]

\* lines 372-374
MimicRestrict(t, sel) ==
    LET ref == SelectedReferenceValues(sel)
    IN  SelectSeq(t, LAMBDA r : \E g \in DOMAIN ref : ref[g].DPI_name = r.label)

\* line 375: list.sort() sorts in place and returns None on both sides of the
\* comparison, so the assertion compares None with None
LabelAssertionPasses(t, sel) == TRUE

\* line 379 (the list is not used by the code)
non_interpretable_non_numerical_values ==
    {"NEG", "TR", "UNABLE TO REPORT", "ERROR", "UNABLE TO PERFORM"}

\* lines 381-393: the pattern searched without regard to case, the separator
\* the text is split at, and the piece read as a number
CensoredPattern(pattern, separator, piece) ==
    [pattern |-> pattern, separator |-> separator, piece |-> piece]

censored_patterns ==
    << CensoredPattern(">", ">", 2),
       CensoredPattern("greater than ", "GREATER THAN ", 2),
       CensoredPattern("IS HIGHEST MEASURED ", "IS HIGHEST MEASURED ", 1) >>

\* x * 1.05
FivePercentMore(x) == (x \div 100) * 105

\* the lambda of lines 383, 388 and 393 on one value text
CensoredEstimate(text, rule) ==
    LET pieces == Split(text, rule.separator)
    IN  IF Len(pieces) < rule.piece THEN [err |-> "IndexError", v |-> NaN]
        ELSE LET x == Float(pieces[rule.piece])
             IN  IF ~x.ok THEN [err |-> "ValueError", v |-> NaN]
                 ELSE [err |-> "",
                       v |-> IF x.v.k = "num" THEN Num(FivePercentMore(x.v.n)) ELSE x.v]

\* one of the three assignments from the k-th row on
RECURSIVE ApplyPatternFrom(_, _, _)
ApplyPatternFrom(t, rule, k) ==
    IF k > Len(t) THEN [df |-> <<>>, err |-> ""]
    ELSE IF ~ContainsNoCase(t[k].value, rule.pattern)
         THEN LET rest == ApplyPatternFrom(t, rule, k + 1)
              IN  [df |-> <<t[k]>> \o rest.df, err |-> rest.err]
         ELSE LET e == CensoredEstimate(t[k].value.s, rule)
                  rest == ApplyPatternFrom(t, rule, k + 1)
              IN  IF e.err # "" THEN [df |-> <<>>, err |-> e.err]
                  ELSE [df |-> <<[t[k] EXCEPT !.value = e.v, !.valuenum = e.v]>> \o rest.df,
                        err |-> rest.err]

\* lines 381-393
RECURSIVE ConvertCensoredFrom(_, _)
ConvertCensoredFrom(t, g) ==
    IF g > Len(censored_patterns) THEN [df |-> t, err |-> ""]
    ELSE LET r == ApplyPatternFrom(t, censored_patterns[g], 1)
         IN  IF r.err # "" THEN [df |-> t, err |-> r.err]
             ELSE ConvertCensoredFrom(r.df, g + 1)

\* the rows lines 397 and 400 select
NonNumerical(r) == IsNull(r.valuenum) /\ ~IsNull(r.value)

\* the rows dropped rather than kept
DropNonNumericalKeepsOthers(t) == SelectSeq(t, LAMBDA r : NonNumerical(r))

\* lines 399-400: the rows are dropped by index label
DropNonNumerical(t) ==
    LET labels == {t[k].idx : k \in {j \in DOMAIN t : NonNumerical(t[j])}}
    IN  SelectSeq(t, LAMBDA r : r.idx \notin labels)

\* lines 406-410 from the g-th reference row on
RECURSIVE ConvertUnitsFrom(_, _, _)
ConvertUnitsFrom(t, ref, g) ==
    IF g > Len(ref) THEN t
    ELSE IF ref[g].unit_conversion_needed # 1 THEN ConvertUnitsFrom(t, ref, g + 1)
    ELSE ConvertUnitsFrom(
             [i \in DOMAIN t |->
                 IF t[i].label = ref[g].DPI_name
                 THEN [t[i] EXCEPT !.valuenum = TimesCell(@, ref[g].multiplicative_factor),
                                   !.valueuom = ref[g].DPI_units]
                 ELSE t[i]],
             ref, g + 1)

\* lines 413-415
MilligramsPerLitre(t) ==
    [i \in DOMAIN t |->
        IF t[i].valueuom = "mg/dL"
        THEN [t[i] EXCEPT !.valuenum = TimesCell(@, 10 * Scale), !.valueuom = "mg/l"]
        ELSE t[i]]

\* line 417
ValueFromValuenum(t) ==
    [i \in DOMAIN t |-> [t[i] EXCEPT !.value = Str(FloatToText(t[i].valuenum))]]

\* lines 420-427 on one row
EquivalentUnit(label, unit) ==
    CASE unit = "mEq/L" /\ label \in {"chlore", "sodium", "potassium"} -> "mmol/l"
      [] unit = "mmol/L" -> "mmol/l"
      [] unit = "IU/L" -> "U/l"
      [] unit = "m/uL" -> "T/l"
      [] unit = "K/uL" -> "G/l"
      [] unit = "pg/mL" -> "ng/l"
      [] unit = "mg/L" -> "mg/l"
      [] OTHER -> unit

\* lines 420-427
ReplaceEquivalentUnits(t) ==
    [i \in DOMAIN t |-> [t[i] EXCEPT !.valueuom = EquivalentUnit(t[i].label, @)]]

\* lines 406-427
MimicConvertUnits(t, sel) ==
    ReplaceEquivalentUnits(
        ValueFromValuenum(
            MilligramsPerLitre(ConvertUnitsFrom(t, SelectedReferenceValues(sel), 1))))

\* lines 430-435 from the g-th reference row on: "" or the error raised
RECURSIVE VerifyUnitsFrom(_, _, _)
VerifyUnitsFrom(t, ref, g) ==
    IF g > Len(ref) THEN ""
    ELSE IF ref[g].DPI_units = "" THEN VerifyUnitsFrom(t, ref, g + 1)
    ELSE LET rows == SelectSeq(t, LAMBDA r : r.label = ref[g].DPI_name)
         IN  IF rows = <<>> THEN "IndexError"
             ELSE IF ref[g].DPI_units # rows[1].valueuom THEN "units"
             ELSE VerifyUnitsFrom(t, ref, g + 1)

\* lines 443-450
MimicOutOfRange(r) ==
    /\ r.label \in RangeVariables
    /\ ~Between(r.valuenum, RangeRow(r.label).Min, RangeRow(r.label).Max)

\* lines 452-453
MimicCountOutOfRange(t) ==
    Cardinality({i \in DOMAIN t : MimicOutOfRange(t[i]) /\ ~IsNull(t[i].valuenum)})

\* lines 457-459
MimicDropOutOfRange(t) ==
    SelectSeq(t, LAMBDA r : ~MimicOutOfRange(r) /\ ~IsNull(r.valuenum))

\* lines 463-465: observations per admission, then the median over the admissions
MimicMedianObservations(t) ==
    [label \in {t[i].label : i \in DOMAIN t} |->
        Median([h \in {t[i].hadm_id : i \in {j \in DOMAIN t : t[j].label = label}} |->
                   Cardinality({i \in DOMAIN t : t[i].hadm_id = h /\ t[i].label = label})])]

-----------------------------------------------------------------------------
(* mimic_preprocess_labs: inputs and steps *)

MaxMimicRows == 2

MimicRow(hadm, time, label, unit, value, valuenum) ==
    [hadm_id |-> hadm, charttime |-> time, label |-> label, valueuom |-> unit,
     value |-> value, valuenum |-> valuenum]

\* a text value and the numeric value the source gives beside it: a number, the
\* three censored forms in upper and in lower case, a token, a missing value
Reading(text, number) == [value |-> text, valuenum |-> number]

GlucoseReadings ==
    {Reading(Str("100"), Num(100 * Scale)),
     Reading(Str(">200"), NaN),
     Reading(Str("GREATER THAN 200"), NaN),
     Reading(Str("greater than 200"), NaN),
     Reading(Str("NEG"), NaN),
     Reading(NaN, NaN)}

PTTReadings ==
    {Reading(Str("30"), Num(30 * Scale)),
     Reading(Str("150 IS HIGHEST MEASURED PTT"), NaN),
     Reading(Str("150 is highest measured ptt"), NaN)}

MimicRows ==
    {MimicRow("100", "t1", "Glucose", "mg/dL", r.value, r.valuenum) : r \in GlucoseReadings}
    \cup {MimicRow("100", "t1", "PTT", "sec", r.value, r.valuenum) : r \in PTTReadings}
    \cup {MimicRow("100", "t1", "Calcium, Total", "mg/dL", Str("9.0"), Num(9 * Scale))}
    \cup {MimicRow(c[1], c[2], "Albumin", "g/dL", Str("4.0"), Num(4 * Scale)) :
            c \in {<<"100", "t1">>, <<"200", "t1">>, <<"100", "t2">>}}
    \cup {MimicRow("100", "t1", "Sodium", u, Str("140"), Num(140 * Scale)) :
            u \in {"mEq/L", "mg/dL"}}

MimicConfigs ==
    {Config({"glucose", "PTT"}, {}, "logs"),
     Config({"calcium corrige"}, {}, ""),
     Config({"sodium"}, {}, ""),
     Config({"sodium", "lactate"}, {}, "")}

InitMimic ==
    /\ lab_df \in Tables(MimicRows, MaxMimicRows)
    /\ \E c \in MimicConfigs :
        /\ selected_variables = c.selected_variables
        /\ material_to_include = c.material_to_include
        /\ log_dir = c.log_dir
    /\ pc = "mimic_start"
    /\ err = ""
    /\ reorganised_lab_df = <<>>
    /\ df = <<>>
    /\ n_observations_out_ouf_range = 0
    /\ median_observations = <<>>
    /\ files = {}
    /\ earlier_calls = <<>>

\* line 331: aligned_lab_df is a copy, the caller's table stays as it was
MimicCallersTable(t) == t

\* line 331; idx is the row's index label
MimicCopy(t) ==
    [i \in DOMAIN t |->
        [idx |-> i, hadm_id |-> t[i].hadm_id, charttime |-> t[i].charttime,
         label |-> t[i].label, valueuom |-> t[i].valueuom, value |-> t[i].value,
         valuenum |-> t[i].valuenum]]

\* lines 327-340
MimicAlignLabels ==
    /\ pc = "mimic_start"
    /\ lab_df' = MimicCallersTable(lab_df)
    /\ LET r == MimicAlignFrom(MimicCopy(lab_df), SelectedReferenceValues(selected_variables), 1)
       IN  /\ df' = r.df
           /\ err' = r.err
           /\ pc' = IF r.err = "" THEN "mimic_calcium" ELSE "mimic_error"
    /\ UNCHANGED <<selected_variables, material_to_include, log_dir, earlier_calls,
                   reorganised_lab_df, audit>>

\* lines 343-369
MimicCorrectedCalcium ==
    /\ pc = "mimic_calcium"
    /\ LET r == CorrectedCalcium(df, selected_variables)
       IN  /\ df' = r.df
           /\ err' = r.err
           /\ pc' = IF r.err = "" THEN "mimic_restrict" ELSE "mimic_error"
    /\ UNCHANGED <<args, earlier_calls, reorganised_lab_df, audit>>

\* lines 372-375
MimicRestrictLabels ==
    /\ pc = "mimic_restrict"
    /\ df' = MimicRestrict(df, selected_variables)
    /\ IF LabelAssertionPasses(df', selected_variables)
       THEN pc' = "mimic_censored" /\ err' = err
       ELSE pc' = "mimic_error" /\ err' = "AssertionError"
    /\ UNCHANGED <<args, earlier_calls, reorganised_lab_df, audit>>

\* lines 381-393
MimicConvertCensored ==
    /\ pc = "mimic_censored"
    /\ LET r == ConvertCensoredFrom(df, 1)
       IN  /\ df' = r.df
           /\ err' = r.err
           /\ pc' = IF r.err = "" THEN "mimic_drop" ELSE "mimic_error"
    /\ UNCHANGED <<args, earlier_calls, reorganised_lab_df, audit>>

\* lines 395-400
MimicDropNonNumerical ==
    /\ pc = "mimic_drop"
    /\ df' = DropNonNumerical(df)
    /\ pc' = "mimic_units"
    /\ UNCHANGED <<args, earlier_calls, err, reorganised_lab_df, audit>>

\* lines 403-427
MimicUnits ==
    /\ pc = "mimic_units"
    /\ df' = MimicConvertUnits(df, selected_variables)
    /\ pc' = "mimic_check_units"
    /\ UNCHANGED <<args, earlier_calls, err, reorganised_lab_df, audit>>

\* lines 429-435
MimicCheckUnits ==
    /\ pc = "mimic_check_units"
    /\ LET e == VerifyUnitsFrom(df, SelectedReferenceValues(selected_variables), 1)
       IN  /\ err' = e
           /\ pc' = IF e = "" THEN "mimic_range" ELSE "mimic_error"
    /\ UNCHANGED <<args, earlier_calls, df, reorganised_lab_df, audit>>

\* lines 437-459
MimicRange ==
    /\ pc = "mimic_range"
    /\ n_observations_out_ouf_range' = MimicCountOutOfRange(df)
    /\ df' = MimicDropOutOfRange(df)
    /\ pc' = "mimic_stats"
    /\ UNCHANGED <<args, earlier_calls, err, reorganised_lab_df, median_observations, files>>

\* lines 461-474
MimicStatistics ==
    /\ pc = "mimic_stats"
    /\ median_observations' = MimicMedianObservations(df)
    /\ pc' = "mimic_log"
    /\ UNCHANGED <<args, earlier_calls, err, reorganised_lab_df, df,
                   n_observations_out_ouf_range, files>>

\* lines 476-491
MimicLogAndReturn ==
    /\ pc = "mimic_log"
    /\ files' = IF log_dir # "" THEN AuditFiles ELSE files
    /\ pc' = "mimic_done"
    /\ UNCHANGED <<args, earlier_calls, err, reorganised_lab_df, df,
                   n_observations_out_ouf_range, median_observations>>

NextMimic ==
    \/ MimicAlignLabels
    \/ MimicCorrectedCalcium
    \/ MimicRestrictLabels
    \/ MimicConvertCensored
    \/ MimicDropNonNumerical
    \/ MimicUnits
    \/ MimicCheckUnits
    \/ MimicRange
    \/ MimicStatistics
    \/ MimicLogAndReturn

SpecMimic == InitMimic /\ [][NextMimic]_vars

\* the call has returned; df is the returned table
MimicReturned == pc = "mimic_done"
MimicFailed == pc = "mimic_error"

-----------------------------------------------------------------------------
(* Either function, called and called again *)

\* the caller calls mimic_preprocess_labs again, with the arguments of the call
\* that has ended
MimicCallAgain ==
    /\ pc \in {"mimic_done", "mimic_error"}
    /\ Len(earlier_calls) + 1 < MaxCalls
    /\ earlier_calls' = Append(earlier_calls, Outcome)
    /\ pc' = "mimic_start"
    /\ err' = ""
    /\ df' = <<>>
    /\ n_observations_out_ouf_range' = 0
    /\ median_observations' = <<>>
    /\ UNCHANGED <<args, reorganised_lab_df, files>>

InitMimicCalls ==
    /\ lab_df \in Tables(MimicRows, MaxCallRows)
    /\ \E c \in MimicConfigs :
        /\ selected_variables = c.selected_variables
        /\ material_to_include = c.material_to_include
        /\ log_dir = c.log_dir
    /\ pc = "mimic_start"
    /\ err = ""
    /\ reorganised_lab_df = <<>>
    /\ df = <<>>
    /\ n_observations_out_ouf_range = 0
    /\ median_observations = <<>>
    /\ files = {}
    /\ earlier_calls = <<>>

NextCalls == Next \/ CallAgain \/ NextMimic \/ MimicCallAgain

SpecCalls == (InitCalls \/ InitMimicCalls) /\ [][NextCalls]_vars

-----------------------------------------------------------------------------
(* C13 *)

\* the call in progress has ended the way the earlier call k ended
SameOutcome(k) ==
    /\ earlier_calls[k].pc = pc
    /\ earlier_calls[k].err = err
    /\ earlier_calls[k].df = df
    /\ earlier_calls[k].n_observations_out_ouf_range = n_observations_out_ouf_range
    /\ earlier_calls[k].median_observations = median_observations

CallEnded == pc \in {"done", "error", "mimic_done", "mimic_error"}

-----------------------------------------------------------------------------
(* C20 *)

\* x is the text of a finite number
NumberText(x) == ToNumeric(Str(x)).k = "num"

\* the text, as written or put in lower case by fold, is '>x', 'greater than x'
\* or 'x is highest measured ...' and x is its number
HasForm(text, x, fold(_)) ==
    \/ text = ">" \o x
    \/ /\ Len(text) = 13 + Len(x)
       /\ fold(SubSeq(text, 1, 13)) = fold("GREATER THAN ")
       /\ SubSeq(text, 14, Len(text)) = x
    \/ /\ Len(text) >= Len(x) + 21
       /\ SubSeq(text, 1, Len(x)) = x
       /\ fold(SubSeq(text, Len(x) + 1, Len(x) + 21)) = fold(" IS HIGHEST MEASURED ")

\* the estimate 1.05 * x of a cell of one of the forms, or no estimate
EstimateOf(v, fold(_)) ==
    IF v.k = "str" /\ \E n \in 1..Len(v.s) : NumberText(SubSeq(v.s, 1, n)) /\ HasForm(v.s, SubSeq(v.s, 1, n), fold)
    THEN LET n == CHOOSE m \in 1..Len(v.s) :
                      NumberText(SubSeq(v.s, 1, m)) /\ HasForm(v.s, SubSeq(v.s, 1, m), fold)
         IN  Num((ToNumeric(Str(SubSeq(v.s, 1, n))).n \div 100) * 105)
    ELSE IF v.k = "str" /\ \E n \in 1..Len(v.s) :
                NumberText(SubSeq(v.s, n, Len(v.s))) /\ HasForm(v.s, SubSeq(v.s, n, Len(v.s)), fold)
    THEN LET n == CHOOSE m \in 1..Len(v.s) :
                      NumberText(SubSeq(v.s, m, Len(v.s)))
                          /\ HasForm(v.s, SubSeq(v.s, m, Len(v.s)), fold)
         IN  Num((ToNumeric(Str(SubSeq(v.s, n, Len(v.s)))).n \div 100) * 105)
    ELSE NaN

AsWritten(text) == text

\* the conversion step ends without an error and gives every row of one of the
\* forms its estimate in both columns
FormsEstimated(fold(_)) ==
    /\ pc' = "mimic_drop"
    /\ DOMAIN df' = DOMAIN df
    /\ \A i \in DOMAIN df :
        EstimateOf(df[i].value, fold) # NaN
            => /\ df'[i].value = EstimateOf(df[i].value, fold)
               /\ df'[i].valuenum = EstimateOf(df[i].value, fold)

\* the step after the conversion drops no row that has a numeric value
NumericRowsKept ==
    \A i \in DOMAIN df :
        df[i].valuenum.k = "num" => \E j \in DOMAIN df' : df'[j] = df[i]

\* C20: in mimic_preprocess_labs, for any variable, a text value of the form
\* '>x', 'greater than x' or 'x is highest measured ...', in whatever letter
\* case the words are written, is replaced by 1.05 * x in the value and in the
\* valuenum column, and the row is not dropped as non-numerical.
AlternateCensoredAnyCase ==
    /\ [][pc = "mimic_censored" => FormsEstimated(Lower)]_vars
    /\ [][pc = "mimic_drop" => NumericRowsKept]_vars

\* the words are written in capitals wherever they occur in the table
WordsInCapitals ==
    \A i \in DOMAIN df :
        df[i].value.k = "str" =>
            /\ Contains(Lower(df[i].value.s), "greater than ")
                   => Contains(df[i].value.s, "GREATER THAN ")
            /\ Contains(Lower(df[i].value.s), "is highest measured ")
                   => Contains(df[i].value.s, "IS HIGHEST MEASURED ")

\* the same for the tables in which the words are written in capitals
AlternateCensoredInCapitals ==
    /\ [][(pc = "mimic_censored" /\ WordsInCapitals) => FormsEstimated(AsWritten)]_vars
    /\ [][pc = "mimic_drop" => NumericRowsKept]_vars

\* a returned table with the estimates of '>200' and of '150 IS HIGHEST ...'
AlternateCensoredWitness ==
    /\ MimicReturned
    /\ \E i \in DOMAIN df : df[i].label = "PTT" /\ df[i].valuenum = Num(D(1575, 1))
    /\ \E i \in DOMAIN df : df[i].label = "glucose" /\ lab_df[i].value = Str(">200")

-----------------------------------------------------------------------------
(* C14 *)

\* the anomalies that a step recovers from by dropping the row
LabelNotSelected(r) == r.dosage_label \notin selected_variables
MaterialNotIncluded(r) == r.material_label \notin material_to_include
UnitNotAllowed(r) ==
    /\ r.dosage_label \in DOMAIN dosage_units_df
    /\ r.unit_of_measure \notin dosage_units_df[r.dosage_label]
ExcludedToken(r) == r.value.k = "str" /\ r.value.s \in non_numerical_values_to_remove
ValueOutOfRange(r) ==
    \E j \in DOMAIN possible_value_ranges :
        /\ possible_value_ranges[j].variable_label = r.dosage_label
        /\ r.value.k = "num"
        /\ (r.value.n < possible_value_ranges[j].Min \/ r.value.n > possible_value_ranges[j].Max)

\* the step at position p goes on to position q and leaves no row that is
\* anomalous in the sense of Anomalous
DropsAndContinues(p, q, Anomalous(_)) ==
    pc = p => /\ pc' = q
              /\ \A i \in DOMAIN df' : ~Anomalous(df'[i])
              /\ \A i \in DOMAIN df' : \E k \in DOMAIN df : df'[i].idx = df[k].idx

\* the two conditions under which the call does raise: two allowed units left
\* for one label, or a value text that is neither a number nor an excluded token
FatalCondition ==
    \/ err = "units" /\ \E i, j \in DOMAIN df :
                            /\ df[i].dosage_label = df[j].dosage_label
                            /\ df[i].unit_of_measure # df[j].unit_of_measure
                            /\ ~UnitNotAllowed(df[i]) /\ ~UnitNotAllowed(df[j])
    \/ err = "non_numeric" /\ \E i \in DOMAIN df : UnknownText(df[i].value)

\* C14: a row with a label outside selected_variables, a material outside
\* material_to_include, a unit outside the allowed units of its variable, a
\* value in the exclusion list or a value outside the plausible range is
\* dropped by its step, and the call goes on to the next step; the call raises
\* only on two allowed units for one label or on unreadable value text, so none
\* of the recoverable anomalies alone keeps it from returning a table.
RecoverableAnomaliesDropped ==
    /\ [][DropsAndContinues("restrict", "materials", LabelNotSelected)]_vars
    /\ [][DropsAndContinues("materials", "blood_gas", MaterialNotIncluded)]_vars
    /\ [][DropsAndContinues("units", "check_units", UnitNotAllowed)]_vars
    /\ [][pc = "numeric" => \A i \in DOMAIN df' : ~ExcludedToken(df'[i])]_vars
    /\ [][DropsAndContinues("range", "stats", ValueOutOfRange)]_vars
    /\ [](Failed => FatalCondition)

\* a returned table of one row, from an input whose other row held an excluded
\* token
RecoverableAnomaliesWitness ==
    /\ Returned
    /\ Len(lab_df) = 2
    /\ Len(df) = 1
    /\ \E i \in DOMAIN lab_df : ExcludedToken(lab_df[i])

-----------------------------------------------------------------------------
(* C15 *)

\* the specimen material the caller gave for the row
MaterialGiven(r) == lab_df[r.idx].material_label

\* the row is still in the table after the step
KeptByStep(r) == \E k \in DOMAIN df' : df'[k].idx = r.idx

\* C15: for pO2, pCO2 and pH the blood-gas filter drops exactly the rows whose
\* specimen material is not arterial: a row of such a variable that passed the
\* material inclusion list is kept by the filter if and only if it was drawn
\* from arterial blood ('sga').
BloodGasFilterKeepsArterial ==
    [][(pc = "blood_gas" /\ pc' = "units") =>
          \A i \in DOMAIN df :
              BloodGasFamily(df[i].dosage_label) =>
                  (KeptByStep(df[i]) <=> MaterialGiven(df[i]) = "sga")]_vars

\* what the filter does: no row of pO2, pCO2 or pH that passed the material
\* inclusion list is kept, arterial or not
BloodGasFilterKeepsNone ==
    [][(pc = "blood_gas" /\ pc' = "units") =>
          \A i \in DOMAIN df :
              BloodGasFamily(df[i].dosage_label) => ~KeptByStep(df[i])]_vars

\* an arterial pH row reached the blood-gas filter
ArterialRowAtFilter ==
    /\ pc = "blood_gas"
    /\ \E i \in DOMAIN df : df[i].dosage_label = "pH" /\ MaterialGiven(df[i]) = "sga"

-----------------------------------------------------------------------------
(* C16 *)

\* the position of a step in the order in which preprocess_labs runs them
StepOrder ==
    <<"start", "labels", "accents", "restrict", "materials", "blood_gas", "units",
      "check_units", "values", "numeric", "negative", "range", "stats", "log", "done">>

Position(p) == CHOOSE k \in DOMAIN StepOrder : StepOrder[k] = p

\* every step hands over to the step after it, or raises
OneStepAfterTheOther ==
    pc' = "error" \/ Position(pc') = Position(pc) + 1

\* what each component has completed, over the whole table
SynonymsResolved(t) ==
    \A i \in DOMAIN t : \A g \in DOMAIN equivalent_labels_df :
        t[i].dosage_label \notin TailSet(equivalent_labels_df[g])
LabelsSelected(t) == \A i \in DOMAIN t : ~LabelNotSelected(t[i])
MaterialsIncluded(t) == \A i \in DOMAIN t : ~MaterialNotIncluded(t[i])
UnitsAllowed(t) == \A i \in DOMAIN t : ~UnitNotAllowed(t[i])
OneUnit(t) ==
    \A i, j \in DOMAIN t :
        t[i].dosage_label = t[j].dosage_label => t[i].unit_of_measure = t[j].unit_of_measure
CensoredCorrected(t) ==
    \A i \in DOMAIN t :
        /\ ~InRuleTable(t[i].dosage_label, t[i].value)
        /\ t[i].value.k = "str" => ~Contains(t[i].value.s, "'")
ValuesInRange(t) == \A i \in DOMAIN t : ~ValueOutOfRange(t[i]) /\ ~IsNull(t[i].value)

\* the steps from the material filter on find the work of every earlier
\* component done
LaterComponentsInOrder ==
    /\ pc = "materials" => LabelsSelected(df)
    /\ pc = "blood_gas" => MaterialsIncluded(df)
    /\ pc = "check_units" => UnitsAllowed(df) /\ MaterialsIncluded(df) /\ LabelsSelected(df)
    /\ pc = "values" => OneUnit(df) /\ UnitsAllowed(df)
    /\ pc = "numeric" => CensoredCorrected(df) /\ OneUnit(df)
    /\ pc \in {"stats", "log", "done"} => ValuesInRange(df) /\ OneUnit(df) /\ LabelsSelected(df)
    /\ pc = "done" => DOMAIN median_observations = LabelsOf(df)

\* calls on tables of few rows, with accents in labels and materials and with
\* each of the anomalies that a component removes
MaxOrderRows == 2

OrderRows ==
    {InputRow("1", "1234", "glucose", "sgv", "mmol/l", v) : v \in {Str("10"), Str(">83.2")}}
    \cup {InputRow("1", "1234", "glucose", "sgv", "mg/dl", Str("10")),
          InputRow("1", "1234", "glucose", "urine", "mmol/l", Str("0.5")),
          InputRow("1", "1234", "glycémie", "cathéter veineux", "mmol/l", Str("1'000")),
          InputRow("1", "1234", "Hb", "sgv cathéter", "g/l", Str("120")),
          InputRow("1", "1234", "ALAT", "sgv", "U/l", Str("ERROR")),
          InputRow("1", "1234", "ALAT", "sgv", "UI/ml", Str("7")),
          InputRow("2", "99", "sodium", "sgv", "mmol/l", Str("10")),
          InputRow("1", "1234", "pH", "sga", "", Str("7.4"))}

InitOrder ==
    /\ lab_df \in Tables(OrderRows, MaxOrderRows)
    /\ \E c \in Configs :
        /\ selected_variables = c.selected_variables
        /\ material_to_include = c.material_to_include
        /\ log_dir = c.log_dir
    /\ InitLocals

SpecOrder == InitOrder /\ [][Next]_vars

\* C16 as stated: the Text Normalizer has completed over the whole table when
\* the Label Equivalence Resolver begins its synonym rewrite, and the later
\* components follow in the order Material Filter, Unit Reconciler,
\* Censored-Value Corrector, Range Validator, Statistics and Audit Reporter.
StepOrderAsStated ==
    /\ [](pc = "labels" => TextColumnsAscii(df))
    /\ [](pc = "restrict" => SynonymsResolved(df) /\ TextColumnsAscii(df))
    /\ []LaterComponentsInOrder
    /\ [][OneStepAfterTheOther]_vars

\* C16, amended: the synonym rewrite of the Label Equivalence Resolver runs on
\* the text as given, before the Text Normalizer; the Text Normalizer has
\* completed over the whole table when the label selection begins, and the
\* later components follow in the order stated.
StepOrderOfTheCode ==
    /\ [](pc = "accents" => SynonymsResolved(df))
    /\ [](pc = "restrict" => SynonymsResolved(df) /\ TextColumnsAscii(df))
    /\ []LaterComponentsInOrder
    /\ [][OneStepAfterTheOther]_vars

\* a returned row of hemoglobine, from an input row labelled 'Hb' whose
\* material was written with an accent: the synonym rewrite met the text before
\* the Text Normalizer did
StepOrderWitness ==
    /\ Returned
    /\ \E i \in DOMAIN df :
        /\ df[i].dosage_label = "hemoglobine"
        /\ lab_df[df[i].idx].dosage_label = "Hb"
        /\ lab_df[df[i].idx].material_label = "sgv cathéter"

-----------------------------------------------------------------------------
(* C17 *)

\* the canonical label of a label: the first entry of the equivalence group
\* that lists it, the label itself when no group does
CanonicalLabel(l) ==
    IF \E g \in DOMAIN equivalent_labels_df : l \in TailSet(equivalent_labels_df[g])
    THEN LET g == CHOOSE h \in DOMAIN equivalent_labels_df :
                      l \in TailSet(equivalent_labels_df[h])
         IN  equivalent_labels_df[g][1]
    ELSE l

\* the canonical label of the row, from the label the caller gave
CanonicalLabelOf(r) == CanonicalLabel(lab_df[r.idx].dosage_label)

\* the restriction as an equivalence: a row is removed if and only if its
\* canonical label (the label after synonym resolution) is not a member of
\* selected_variables
LabelRestrictionExact ==
    [][pc = "restrict" =>
          \A i \in DOMAIN df :
              KeptByStep(df[i]) <=> CanonicalLabelOf(df[i]) \in selected_variables]_vars

\* C17: after synonym resolution, the label restriction removes only rows of
\* other labels: every row whose canonical label is a member of
\* selected_variables is kept by the step, a canonical label spelled with
\* accents (as in the equivalence lists) included.
SelectedCanonicalLabelKept ==
    [][pc = "restrict" =>
          \A i \in DOMAIN df :
              CanonicalLabelOf(df[i]) \in selected_variables => KeptByStep(df[i])]_vars

\* what the restriction does: it compares the canonical label without its
\* accents with selected_variables as given
LabelRestrictionOnUnaccentedLabel ==
    [][pc = "restrict" =>
          \A i \in DOMAIN df :
              KeptByStep(df[i]) <=>
                  RemoveAccents(CanonicalLabelOf(df[i])) \in selected_variables]_vars

\* a row whose canonical label has an accent and is in selected_variables
\* reached the label restriction
AccentedSelectionAtRestriction ==
    /\ pc = "restrict"
    /\ \E i \in DOMAIN df :
        /\ CanonicalLabelOf(df[i]) \in selected_variables
        /\ ~OnlyAscii(CanonicalLabelOf(df[i]))

-----------------------------------------------------------------------------
(* C18 *)

\* the value lies below the minimum or above the maximum configured for the
\* row's variable
BeyondRange(r) ==
    \E j \in DOMAIN possible_value_ranges :
        /\ possible_value_ranges[j].variable_label = r.dosage_label
        /\ \/ r.value.k = "num" /\ r.value.n < possible_value_ranges[j].Min
           \/ r.value.k = "num" /\ r.value.n > possible_value_ranges[j].Max
           \/ r.value.k = "inf"

\* the rows that an earlier step removes: a missing value, an excluded token or
\* other text, a negative value of hemoglobin or glucose, a unit, material or
\* label that is not allowed
RemovedEarlier(r) ==
    \/ r.value.k \in {"nan", "str"}
    \/ r.dosage_label \in {"hémoglobine", "hemoglobine", "glucose"} /\ Less(r.value, 0)
    \/ UnitNotAllowed(r)
    \/ MaterialNotIncluded(r)
    \/ LabelNotSelected(r)

\* C18: the reported number of observations out of range is the number of rows
\* whose value the range check nulled, the rows of a variable with a configured
\* range whose value is below the minimum or above the maximum, and these are
\* the rows the step removes; the rows removed earlier (negative hemoglobin or
\* glucose values, excluded tokens, missing values, disallowed units, materials
\* or labels) are not in the table when the count is taken.
OutOfRangeCountExact ==
    /\ [](pc = "range" => \A i \in DOMAIN df : ~RemovedEarlier(df[i]))
    /\ [][pc = "range" =>
            /\ n_observations_out_ouf_range' =
                   Cardinality({i \in DOMAIN df : BeyondRange(df[i])})
            /\ Len(df) - Len(df') = n_observations_out_ouf_range']_vars
    /\ [][pc # "range" => n_observations_out_ouf_range' = n_observations_out_ouf_range]_vars

\* a call that returned with a count of one, from two glucose rows: a value
\* below the minimum, counted, and a negative value, removed before the count
OutOfRangeCountWitness ==
    /\ Returned
    /\ n_observations_out_ouf_range = 1
    /\ Len(lab_df) = 2
    /\ \E i \in DOMAIN lab_df :
        lab_df[i].dosage_label = "glucose" /\ lab_df[i].value = Str("-5")
    /\ \E i \in DOMAIN lab_df :
        lab_df[i].dosage_label = "glucose" /\ lab_df[i].value = Str("0.5")

-----------------------------------------------------------------------------
(* The command-line entry point *)

\* the parameters of preprocess_labs, in the order of its signature
Parameters ==
    <<[name |-> "lab_df", required |-> TRUE],
      [name |-> "selected_variables", required |-> TRUE],
      [name |-> "material_to_include", required |-> FALSE],
      [name |-> "log_dir", required |-> FALSE],
      [name |-> "verbose", required |-> FALSE]>>

\* the call of the entry point: one positional argument and two keywords
MainPositional == 1
MainKeywords == {"material_to_include", "log_dir"}

\* the required parameters that a call leaves without an argument
MissingArguments(npos, keywords) ==
    {Parameters[k].name : k \in {j \in DOMAIN Parameters :
        /\ j > npos
        /\ Parameters[j].required
        /\ Parameters[j].name \notin keywords}}

\* the default of --output_dir, Python's None
NoOutputDir == "<None>"

\* the state after the arguments are parsed and the input files are read and
\* concatenated: lab_df is the concatenation, material_to_include and log_dir
\* hold args.material_to_include and args.output_dir, the values the call
\* passes by keyword; nothing is given for selected_variables
InitMain ==
    /\ lab_df \in Tables(InputRows, MaxRows)
    /\ selected_variables = {}
    /\ material_to_include \in {{"any_blood"}, {"urine"}}
    /\ log_dir \in {NoOutputDir, "out"}
    /\ pc = "main"
    /\ err = ""
    /\ reorganised_lab_df = <<>>
    /\ df = <<>>
    /\ n_observations_out_ouf_range = 0
    /\ median_observations = <<>>
    /\ files = {}
    /\ earlier_calls = <<>>

\* the call of preprocess_labs by the entry point: Python binds the arguments
\* to the parameters before the body runs, and raises TypeError when a required
\* parameter is left without one
Main ==
    /\ pc = "main"
    /\ IF MissingArguments(MainPositional, MainKeywords) # {}
       THEN pc' = "error" /\ err' = "TypeError"
       ELSE pc' = "start" /\ err' = err
    /\ UNCHANGED <<args, earlier_calls, reorganised_lab_df, df, audit>>

NextMain == Main

SpecMain == InitMain /\ [][NextMain]_vars

-----------------------------------------------------------------------------
(* C19 *)

\* C19: when the command-line entry point is run without an output directory,
\* the pipeline runs to completion (the call of preprocess_labs does not
\* raise) and no file is written.
MainCompletesWithoutOutputDir ==
    (pc # "main" /\ log_dir = NoOutputDir) => (pc # "error" /\ files = {})

\* the part of it that holds: the entry point run without an output directory
\* writes no file
MainWithoutOutputDirWritesNothing ==
    log_dir = NoOutputDir => files = {}

\* the entry point, run without an output directory, has made its call
MainCalledWithoutOutputDir == pc # "main" /\ log_dir = NoOutputDir

\* for a direct call of preprocess_labs: the three audit files are written by
\* a call that returns with log_dir set, and nothing is written otherwise
AuditFilesOnlyWithLogDir ==
    files = IF Returned /\ log_dir # "" THEN AuditFiles ELSE {}

\* a direct call that returned with the three audit files written
AuditFilesWritten == Returned /\ files = AuditFiles

-----------------------------------------------------------------------------
(* mimic_preprocess_labs on text values that give no number *)

MaxMimicTextRows == 2

\* a number, a censored value, two tokens of the non-interpretable list, a
\* pattern whose remainder is not a number (a titre), a pattern in lower case
TextReadings ==
    {Reading(Str("100"), Num(100 * Scale)),
     Reading(Str(">200"), NaN),
     Reading(Str("NEG"), NaN),
     Reading(Str("UNABLE TO REPORT"), NaN),
     Reading(Str(">1:80"), NaN),
     Reading(Str("greater than 200"), NaN)}

MimicTextRows ==
    {MimicRow("100", "t1", "Glucose", "mg/dL", r.value, r.valuenum) : r \in TextReadings}
    \cup {MimicRow("200", "t1", "PTT", "sec", r.value, r.valuenum) : r \in PTTReadings}

InitMimicText ==
    /\ lab_df \in Tables(MimicTextRows, MaxMimicTextRows)
    /\ selected_variables \in {{"glucose", "PTT"}, {"glucose"}}
    /\ material_to_include = {}
    /\ log_dir \in {"", "logs"}
    /\ pc = "mimic_start"
    /\ err = ""
    /\ reorganised_lab_df = <<>>
    /\ df = <<>>
    /\ n_observations_out_ouf_range = 0
    /\ median_observations = <<>>
    /\ files = {}
    /\ earlier_calls = <<>>

SpecMimicText == InitMimicText /\ [][NextMimic]_vars

-----------------------------------------------------------------------------
(* C21 *)

\* the row has a text value and no number beside it
TextWithoutNumber(r) == r.value.k = "str" /\ r.valuenum.k = "nan"

\* the row is not in the table after the step
DroppedByStep(r) == \A k \in DOMAIN df' : df'[k].idx # r.idx

\* C21: in mimic_preprocess_labs every row whose text value yields no numeric
\* estimate (a non-interpretable token, a text matching one of the inequality
\* patterns whose remainder is not a number, a pattern written in lower case)
\* is dropped and the call continues: the conversion of the censored values
\* goes on to the drop of the non-numerical rows without an error, and that
\* step removes the rows left with text and no number and goes on to the unit
\* conversion.
UnparseableTextRecoverable ==
    /\ [][pc = "mimic_censored" => pc' = "mimic_drop"]_vars
    /\ [][pc = "mimic_drop" =>
            /\ pc' = "mimic_units"
            /\ \A i \in DOMAIN df : TextWithoutNumber(df[i]) => DroppedByStep(df[i])]_vars

\* the part of it that holds: a row whose text matches none of the three
\* patterns and has no number beside it is dropped, and the call continues
TokensDropped ==
    [][pc = "mimic_drop" =>
          /\ pc' = "mimic_units"
          /\ \A i \in DOMAIN df : TextWithoutNumber(df[i]) => DroppedByStep(df[i])]_vars

\* the text of some row matches a pattern and the piece the code reads is not a
\* number, or the text is not split by the separator as written in the code
PatternWithoutNumber(t) ==
    \E i \in DOMAIN t : \E g \in DOMAIN censored_patterns :
        /\ ContainsNoCase(t[i].value, censored_patterns[g].pattern)
        /\ EstimateOf(t[i].value, AsWritten) = NaN

\* the conversion raises exactly on the tables with such a row
ConversionFailsOnPatternWithoutNumber ==
    [][pc = "mimic_censored" =>
          (pc' = "mimic_error" <=> PatternWithoutNumber(df))]_vars

\* a returned table from an input with a non-interpretable token
TokenDroppedAndReturned ==
    /\ MimicReturned
    /\ Len(df) = 1
    /\ \E i \in DOMAIN lab_df : lab_df[i].value = Str("NEG")

-----------------------------------------------------------------------------
(* C22 *)

\* the target unit configured for the label of a selected variable, "" if none
TargetUnit(label) ==
    IF \E g \in DOMAIN mimic_equivalence_lab_values :
           /\ mimic_equivalence_lab_values[g].DPI_name = label
           /\ label \in selected_variables
    THEN LET g == CHOOSE h \in DOMAIN mimic_equivalence_lab_values :
                      mimic_equivalence_lab_values[h].DPI_name = label
         IN  mimic_equivalence_lab_values[g].DPI_units
    ELSE ""

\* the row is of a selected variable with a target unit and carries another unit
OtherUnit(r) == TargetUnit(r.label) # "" /\ r.valueuom # TargetUnit(r.label)

\* C22: whenever mimic_preprocess_labs returns, every row of a selected
\* variable with a configured target unit carries exactly that unit; if after
\* conversion and synonym folding any row of such a variable has another unit,
\* the call fails with an error.
MimicUnitsConsistent ==
    /\ [](MimicReturned => \A i \in DOMAIN df : ~OtherUnit(df[i]))
    /\ [][(pc = "mimic_check_units" /\ \E i \in DOMAIN df : OtherUnit(df[i]))
              => pc' = "mimic_error"]_vars

\* what the check of the code ensures: of each selected variable with a target
\* unit, the first row of the returned table carries that unit
FirstRowOfVariable(t, i) == \A j \in 1..(i - 1) : t[j].label # t[i].label

MimicFirstUnitConsistent ==
    /\ [][pc = "mimic_check_units" =>
            (pc' = "mimic_range" =>
                \A i \in DOMAIN df : FirstRowOfVariable(df, i) => ~OtherUnit(df[i]))]_vars
    /\ [][(pc = "mimic_check_units"
             /\ \E i \in DOMAIN df : FirstRowOfVariable(df, i) /\ OtherUnit(df[i]))
              => (pc' = "mimic_error" /\ err' = "units")]_vars

\* a call that failed on the unit of the first row of a variable
MimicUnitErrorReached == MimicFailed /\ err = "units"

-----------------------------------------------------------------------------
(* C23 *)

\* the labels of the reference table that the caller selected
SelectedReferenceLabels ==
    {mimic_equivalence_lab_values[g].DPI_name : g \in DOMAIN mimic_equivalence_lab_values}
        \cap selected_variables

LabelsPresent(t) == {t[i].label : i \in DOMAIN t}

\* C23: in mimic_preprocess_labs, after the restriction to the selected
\* variables, the set of distinct labels present in the table equals the set
\* of selected reference labels: the assertion stops the call when a selected
\* label has no rows or an unexpected label is present, and lets it go on
\* otherwise.
LabelCoverageChecked ==
    /\ [][pc = "mimic_restrict" =>
            (pc' = "mimic_error" <=> LabelsPresent(df') # SelectedReferenceLabels)]_vars
    /\ [](pc = "mimic_censored" => LabelsPresent(df) = SelectedReferenceLabels)

\* what the restriction ensures: no label other than the selected reference
\* labels is present afterwards, and the step never stops the call
NoUnexpectedLabel ==
    /\ [][pc = "mimic_restrict" => pc' = "mimic_censored"]_vars
    /\ [](pc = "mimic_censored" => LabelsPresent(df) \subseteq SelectedReferenceLabels)

\* a call that returned a table without any row of a selected label
SelectedLabelMissing ==
    /\ MimicReturned
    /\ df # <<>>
    /\ LabelsPresent(df) # SelectedReferenceLabels
    /\ \A i \in DOMAIN lab_df : lab_df[i].label # "PTT"

-----------------------------------------------------------------------------
(* mimic_preprocess_labs on calcium and albumin measurements *)

MaxCalciumRows == 4

\* total calcium of two admissions at one chart time, two measurements for one
\* of them, and albumin of either admission at that time and at another
CalciumRows ==
    {MimicRow("100", "t1", "Calcium, Total", "mg/dL", Str("9.0"), Num(9 * Scale)),
     MimicRow("100", "t1", "Calcium, Total", "mg/dL", Str("8.0"), Num(8 * Scale)),
     MimicRow("200", "t1", "Calcium, Total", "mg/dL", Str("9.0"), Num(9 * Scale)),
     MimicRow("100", "t1", "Albumin", "g/dL", Str("4.0"), Num(4 * Scale)),
     MimicRow("200", "t1", "Albumin", "g/dL", Str("3.0"), Num(3 * Scale)),
     MimicRow("100", "t2", "Albumin", "g/dL", Str("4.0"), Num(4 * Scale))}

InitCalcium ==
    /\ lab_df \in Tables(CalciumRows, MaxCalciumRows)
    /\ selected_variables = {"calcium corrige"}
    /\ material_to_include = {}
    /\ log_dir \in {"", "logs"}
    /\ pc = "mimic_start"
    /\ err = ""
    /\ reorganised_lab_df = <<>>
    /\ df = <<>>
    /\ n_observations_out_ouf_range = 0
    /\ median_observations = <<>>
    /\ files = {}
    /\ earlier_calls = <<>>

SpecCalcium == InitCalcium /\ [][NextMimic]_vars

-----------------------------------------------------------------------------
(* C24 *)

\* a measurement: the cells of a row
MeasurementOf(r) ==
    [hadm_id |-> r.hadm_id, charttime |-> r.charttime, label |-> r.label,
     valuenum |-> r.valuenum]

MeasurementsOf(t, label) ==
    {MeasurementOf(t[i]) : i \in {j \in DOMAIN t : t[j].label = label}}

\* the albumin measurements of the same admission at the same chart time
SameAdmissionAlbumin(t, c) ==
    {a \in MeasurementsOf(t, "Albumin") :
        a.hadm_id = c.hadm_id /\ a.charttime = c.charttime}

\* the total-calcium measurements that have one
PairedCalcium(t) ==
    {c \in MeasurementsOf(t, "Calcium, Total") : SameAdmissionAlbumin(t, c) # {}}

\* calcium * 0.2495 + 0.02 * (40 - albumin * 10)
CorrectedCalciumValue(calcium, albumin) ==
    (calcium * 2495) \div 10000 + (2 * (40 * Scale - albumin * 10)) \div 100

\* the rows the step adds at the end of the table
RowsAdded == SubSeq(df', Len(df) + 1, Len(df'))

\* the added row n is the corrected calcium of the measurement c
CorrectedRowOf(n, c) ==
    /\ n.label = "calcium corrige"
    /\ n.hadm_id = c.hadm_id
    /\ n.charttime = c.charttime
    /\ \E a \in SameAdmissionAlbumin(df, c) :
           n.valuenum = Num(CorrectedCalciumValue(c.valuenum.n, a.valuenum.n))

\* the step does not fail, and the rows it adds are, one for one, the
\* corrected calcium of the paired total-calcium measurements
CalciumPairedOneForOne ==
    /\ pc' = "mimic_restrict"
    /\ SubSeq(df', 1, Len(df)) = df
    /\ Len(RowsAdded) = Cardinality(PairedCalcium(df))
    /\ \A c \in PairedCalcium(df) :
           \E k \in DOMAIN RowsAdded : CorrectedRowOf(RowsAdded[k], c)

\* C24: in mimic_preprocess_labs with 'calcium corrige' selected, exactly one
\* corrected-calcium row is synthesized for each total-calcium measurement that
\* has an albumin measurement of the same admission at the same chart time,
\* with the value calcium * 0.2495 + 0.02 * (40 - albumin * 10) from that
\* admission's albumin; a calcium measurement without one produces no row and
\* does not make the call fail.
CorrectedCalciumPairing ==
    [][(pc = "mimic_calcium" /\ "calcium corrige" \in selected_variables)
          => CalciumPairedOneForOne]_vars

\* the tables in which each admission and chart time has one total-calcium
\* measurement at most, and the albumin measurements of one chart time are of
\* one admission
OneCalciumPerTimeAndOneAdmission(t) ==
    /\ \A c, d \in MeasurementsOf(t, "Calcium, Total") :
           (c.hadm_id = d.hadm_id /\ c.charttime = d.charttime) => c = d
    /\ \A a, b \in MeasurementsOf(t, "Albumin") :
           a.charttime = b.charttime => a.hadm_id = b.hadm_id

\* the pairing on those tables
CorrectedCalciumPairingOneAdmission ==
    [][(pc = "mimic_calcium" /\ "calcium corrige" \in selected_variables
            /\ OneCalciumPerTimeAndOneAdmission(df))
          => CalciumPairedOneForOne]_vars

\* a returned table with the corrected calcium of a paired measurement
CorrectedCalciumReturned ==
    /\ MimicReturned
    /\ \E i \in DOMAIN df :
        df[i].label = "calcium corrige" /\ df[i].valuenum = Num(D(22455, 4))

====
